---- MODULE Spec2Model ----
(***************************************************************************)
(* Model of the shapes plugin: five layer type definitions (rect, ellipse, *)
(* line, polygon, star) with their schema lists, createDefault, canvas and *)
(* SVG render and validate, the shared applyShapeStyle helper, the vertex  *)
(* generators, and the five tool handlers that write to a host-owned layer *)
(* stack.                                                                  *)
(*                                                                         *)
(* JavaScript values are records [t, n, s, b]: t is the kind, n the number *)
(* in HUNDREDTHS (6 is 600, 0.4 is 40, 0.05 is 5), s the string, b the     *)
(* boolean.  NaN is a kind of its own whose typeof is "number".            *)
(***************************************************************************)
EXTENDS Integers, Sequences, FiniteSets, TLC

VARIABLES
    layers,      \* the host's layer stack (createMockContext: the `layers` array)
    hostCalls,   \* calls the last tool invocation made on the host context, in order
    result,      \* outcome of the last tool invocation
    nAdd,        \* layers.add calls so far
    nUpdate,     \* layers.updateProperties calls so far
    nEmit,       \* emitChange calls so far
    nOk,         \* writer-tool invocations that returned a non-error result so far
    nCalls,      \* tool invocations so far
    tool,        \* name of the last tool invoked
    lastInput,   \* input record of the last tool invocation
    ltype,       \* key of the layer type under test
    props,       \* the property bag under test
    bounds,      \* the bounds handed to render
    ctx,         \* the recording drawing context after the last render
    validation,  \* result of the last validate
    origin,      \* where props came from: an input, or the last createDefault
    op,          \* the last operation applied to (ltype, props, bounds)
    svg,         \* the element the last renderSVG returned
    geom,        \* the arguments of a vertex generator call
    vertices,    \* the list the vertex generator returned
    definitions, \* the module-level layer type definitions and the shared schema list
    heap,        \* the property bags as objects: object reference -> contents
    handles,     \* the bags handed out so far: reference, layer type, and which call made it
    heapOp       \* the last operation on the heap and the object it concerned

toolVars == <<layers, hostCalls, result, nAdd, nUpdate, nEmit, nOk, nCalls, tool, lastInput>>
typeVars == <<ltype, props, origin, bounds, ctx, validation, op, svg>>
geomVars == <<geom, vertices>>
heapVars == <<definitions, heap, handles, heapOp>>
vars == <<toolVars, typeVars, geomVars, heapVars>>

-----------------------------------------------------------------------------
(* JavaScript values *)

Undef == [t |-> "undefined", n |-> 0, s |-> "", b |-> FALSE]
Null == [t |-> "null", n |-> 0, s |-> "", b |-> FALSE]
NaN == [t |-> "NaN", n |-> 0, s |-> "", b |-> FALSE]
Num(h) == [t |-> "number", n |-> h, s |-> "", b |-> FALSE]
Str(x) == [t |-> "string", n |-> 0, s |-> x, b |-> FALSE]
Bool(x) == [t |-> "boolean", n |-> 0, s |-> "", b |-> x]

\* whole.frac with frac in hundredths: Fixed(0, 40) is 0.4, Fixed(6, 0) is 6
Fixed(whole, frac) == whole * 100 + frac
Whole(i) == Num(Fixed(i, 0))

\* typeof v
TypeOf(v) == IF v.t = "NaN" THEN "number"
             ELSE IF v.t = "null" THEN "object"
             ELSE v.t

\* v ?? d
Coalesce(v, d) == IF v.t \in {"undefined", "null"} THEN d ELSE v

\* the characters of the strings the model uses
Chars(x) ==
    CASE x = "" -> <<>>
      [] x = "6" -> <<"6">>
      [] x = "3" -> <<"3">>
      [] x = "abc" -> <<"a", "b", "c">>
      [] x = "5,3" -> <<"5", ",", "3">>
      [] x = "0,-2,abc" -> <<"0", ",", "-", "2", ",", "a", "b", "c">>
      [] x = "4,,0,6" -> <<"4", ",", ",", "0", ",", "6">>
      [] x = "1.5, 2" -> <<"1", ".", "5", ",", " ", "2">>
      [] x = "shapes:" -> <<"s", "h", "a", "p", "e", "s", ":">>
      [] x = "shapes:rect" -> <<"s", "h", "a", "p", "e", "s", ":", "r", "e", "c", "t">>
      [] x = "shapes:ellipse" ->
            <<"s", "h", "a", "p", "e", "s", ":", "e", "l", "l", "i", "p", "s", "e">>
      [] x = "shapes:line" -> <<"s", "h", "a", "p", "e", "s", ":", "l", "i", "n", "e">>
      [] x = "shapes:polygon" ->
            <<"s", "h", "a", "p", "e", "s", ":", "p", "o", "l", "y", "g", "o", "n">>
      [] x = "shapes:star" -> <<"s", "h", "a", "p", "e", "s", ":", "s", "t", "a", "r">>
      [] x = "shapes:custom" ->
            <<"s", "h", "a", "p", "e", "s", ":", "c", "u", "s", "t", "o", "m">>
      [] x = "shapes" -> <<"s", "h", "a", "p", "e", "s">>
      [] x = "Shapes:rect" -> <<"S", "h", "a", "p", "e", "s", ":", "r", "e", "c", "t">>
      [] x = "my-shapes:rect" ->
            <<"m", "y", "-", "s", "h", "a", "p", "e", "s", ":", "r", "e", "c", "t">>
      [] x = "typography:text" ->
            <<"t", "y", "p", "o", "g", "r", "a", "p", "h", "y", ":", "t", "e", "x", "t">>

DigitChars == <<"0", "1", "2", "3", "4", "5", "6", "7", "8", "9">>
IsDigit(c) == \E d \in 1..Len(DigitChars) : DigitChars[d] = c
DigitValue(c) == (CHOOSE d \in 1..Len(DigitChars) : DigitChars[d] = c) - 1

\* the string without its leading and trailing blanks
RECURSIVE TrimChars(_)
TrimChars(cs) ==
    IF Len(cs) = 0 THEN cs
    ELSE IF cs[1] = " " THEN TrimChars(Tail(cs))
    ELSE IF cs[Len(cs)] = " " THEN TrimChars(SubSeq(cs, 1, Len(cs) - 1))
    ELSE cs

\* reads a decimal numeral from position i on: digits with at most one point
\* and at most two digits after it.  acc is the value of the digits read,
\* digits their count, frac the count of those after the point (-1 before the
\* point); the result is in hundredths, NaN when the text is no numeral
RECURSIVE ScanNumeral(_, _, _, _, _, _)
ScanNumeral(cs, i, sign, acc, digits, frac) ==
    IF i > Len(cs)
    THEN IF digits = 0 THEN NaN
         ELSE Num(sign * acc * (IF frac <= 0 THEN 100 ELSE IF frac = 1 THEN 10 ELSE 1))
    ELSE IF cs[i] = "."
    THEN IF frac >= 0 THEN NaN ELSE ScanNumeral(cs, i + 1, sign, acc, digits, 0)
    ELSE IF ~IsDigit(cs[i]) \/ frac >= 2 THEN NaN
    ELSE ScanNumeral(cs, i + 1, sign, acc * 10 + DigitValue(cs[i]), digits + 1,
                     IF frac >= 0 THEN frac + 1 ELSE frac)

\* Number(s) on the trimmed characters: the empty string is 0, an optionally
\* signed decimal numeral is its value, anything else is NaN (exponents,
\* hexadecimal and Infinity are outside the strings the model uses)
SignedNumeral(t) ==
    IF Len(t) = 0 THEN Whole(0)
    ELSE ScanNumeral(t, IF t[1] \in {"-", "+"} THEN 2 ELSE 1,
                     IF t[1] = "-" THEN 0 - 1 ELSE 1, 0, 0, 0 - 1)

CharsToNumber(cs) == SignedNumeral(TrimChars(cs))

StringToNumber(x) == CharsToNumber(Chars(x))

\* the numeric coercion the relational operators and arithmetic apply
ToNumber(v) ==
    CASE v.t = "number" -> v
      [] v.t = "NaN" -> NaN
      [] v.t = "undefined" -> NaN
      [] v.t = "null" -> Whole(0)
      [] v.t = "boolean" -> IF v.b THEN Whole(1) ELSE Whole(0)
      [] v.t = "string" -> StringToNumber(v.s)

\* a > b and a < b between a value and a number (false when either side is NaN)
Gt(a, b) == LET x == ToNumber(a)
                y == ToNumber(b)
            IN  x.t = "number" /\ y.t = "number" /\ x.n > y.n
Lt(a, b) == Gt(b, a)

\* the truthiness test of `if (v)` and `!v`
Truthy(v) ==
    CASE v.t = "boolean" -> v.b
      [] v.t = "number" -> v.n # 0
      [] v.t = "string" -> v.s # ""
      [] OTHER -> FALSE

\* Math.min(a, b, c): NaN when any argument coerces to NaN
Min2(x, y) == IF x < y THEN x ELSE y
MathMin3(a, b, c) ==
    LET x == ToNumber(a)
        y == ToNumber(b)
        z == ToNumber(c)
    IN  IF x.t = "NaN" \/ y.t = "NaN" \/ z.t = "NaN" THEN NaN
        ELSE Num(Min2(x.n, Min2(y.n, z.n)))

Abs(n) == IF n < 0 THEN 0 - n ELSE n

\* String(n) of a number held in hundredths: 19400 is "194", 150 is "1.5"
NumberToString(h) ==
    LET whole == ToString(Abs(h) \div 100)
        frac == Abs(h) % 100
    IN  (IF h < 0 THEN "-" ELSE "")
        \o (IF frac = 0 THEN whole
            ELSE IF frac % 10 = 0 THEN whole \o "." \o ToString(frac \div 10)
            ELSE whole \o "." \o (IF frac < 10 THEN "0" ELSE "") \o ToString(frac))

\* the string coercion the + operator applies next to a string operand
ToStringValue(v) ==
    CASE v.t = "string" -> v.s
      [] v.t = "number" -> NumberToString(v.n)
      [] v.t = "boolean" -> IF v.b THEN "true" ELSE "false"
      [] OTHER -> v.t

\* a / 2 with the operand coerced to a number (its hundredths are even)
Half(a) == LET x == ToNumber(a)
           IN  IF x.t = "NaN" THEN NaN ELSE Num(x.n \div 2)

\* a + b: concatenation when either operand is a string, else the sum of the
\* operands coerced to numbers
Plus(a, b) ==
    IF a.t = "string" \/ b.t = "string"
    THEN Str(ToStringValue(a) \o ToStringValue(b))
    ELSE LET x == ToNumber(a)
             y == ToNumber(b)
         IN  IF x.t = "NaN" \/ y.t = "NaN" THEN NaN ELSE Num(x.n + y.n)

\* a - b: both operands coerced to numbers, NaN when either coerces to NaN
Minus(a, b) ==
    LET x == ToNumber(a)
        y == ToNumber(b)
    IN  IF x.t = "NaN" \/ y.t = "NaN" THEN NaN ELSE Num(x.n - y.n)

(* objects: a function from the own keys to values; a missing key reads undefined *)
EmptyBag == [k \in {} |-> Undef]
Get(bag, k) == IF k \in DOMAIN bag THEN bag[k] ELSE Undef
Put(bag, k, v) == [x \in (DOMAIN bag) \cup {k} |-> IF x = k THEN v ELSE bag[x]]

-----------------------------------------------------------------------------
(* schema lists *)

Schema(key, label, type, default, min, max, step, group) ==
    [key |-> key, label |-> label, type |-> type, default |-> default,
     min |-> min, max |-> max, step |-> step, group |-> group]

COMMON_SHAPE_PROPERTIES ==
    << Schema("fillColor", "Fill Color", "color", Str("#ffffff"), Undef, Undef, Undef, "fill"),
       Schema("fillEnabled", "Fill Enabled", "boolean", Bool(TRUE), Undef, Undef, Undef, "fill"),
       Schema("strokeColor", "Stroke Color", "color", Str("#000000"), Undef, Undef, Undef, "stroke"),
       Schema("strokeWidth", "Stroke Width", "number", Whole(0), Whole(0), Whole(100),
              Num(Fixed(0, 50)), "stroke"),
       Schema("strokeEnabled", "Stroke Enabled", "boolean", Bool(FALSE), Undef, Undef, Undef, "stroke") >>

RECT_PROPERTIES ==
    COMMON_SHAPE_PROPERTIES \o
    << Schema("cornerRadius", "Corner Radius", "number", Whole(0), Whole(0), Whole(500),
              Whole(1), "shape") >>

LINE_PROPERTIES ==
    << Schema("strokeColor", "Line Color", "color", Str("#ffffff"), Undef, Undef, Undef, "stroke"),
       Schema("strokeWidth", "Line Width", "number", Whole(2), Num(Fixed(0, 50)), Whole(100),
              Num(Fixed(0, 50)), "stroke"),
       Schema("lineCap", "Line Cap", "select", Str("round"), Undef, Undef, Undef, "stroke"),
       Schema("dashPattern", "Dash Pattern", "string", Str(""), Undef, Undef, Undef, "stroke") >>

POLYGON_PROPERTIES ==
    COMMON_SHAPE_PROPERTIES \o
    << Schema("sides", "Sides", "number", Whole(6), Whole(3), Whole(100), Whole(1), "shape"),
       Schema("rotation", "Rotation", "number", Whole(0), Whole(0), Whole(360), Whole(1), "shape") >>

STAR_PROPERTIES ==
    COMMON_SHAPE_PROPERTIES \o
    << Schema("points", "Points", "number", Whole(5), Whole(3), Whole(50), Whole(1), "shape"),
       Schema("innerRadius", "Inner Radius", "number", Num(Fixed(0, 40)), Num(Fixed(0, 5)),
              Num(Fixed(0, 95)), Num(Fixed(0, 1)), "shape"),
       Schema("rotation", "Rotation", "number", Whole(0), Whole(0), Whole(360), Whole(1), "shape") >>

(* layer type definitions: the data fields; createDefault, render and validate
   are the operators below, dispatched on the key *)
rectLayerType ==
    [typeId |-> "shapes:rect", displayName |-> "Rectangle", properties |-> RECT_PROPERTIES]
ellipseLayerType ==
    [typeId |-> "shapes:ellipse", displayName |-> "Ellipse", properties |-> COMMON_SHAPE_PROPERTIES]
lineLayerType ==
    [typeId |-> "shapes:line", displayName |-> "Line", properties |-> LINE_PROPERTIES]
polygonLayerType ==
    [typeId |-> "shapes:polygon", displayName |-> "Polygon", properties |-> POLYGON_PROPERTIES]
starLayerType ==
    [typeId |-> "shapes:star", displayName |-> "Star", properties |-> STAR_PROPERTIES]

LayerTypeKeys == {"rect", "ellipse", "line", "polygon", "star"}

LayerType(key) ==
    CASE key = "rect" -> rectLayerType
      [] key = "ellipse" -> ellipseLayerType
      [] key = "line" -> lineLayerType
      [] key = "polygon" -> polygonLayerType
      [] key = "star" -> starLayerType

\* mutation: rect iterates the common list, as ellipse does
CreateDefaultSchema_RectCommon(key) ==
    CASE key = "rect" -> COMMON_SHAPE_PROPERTIES
      [] key = "ellipse" -> COMMON_SHAPE_PROPERTIES
      [] key = "line" -> LINE_PROPERTIES
      [] key = "polygon" -> POLYGON_PROPERTIES
      [] key = "star" -> STAR_PROPERTIES

\* the schema list each createDefault iterates
CreateDefaultSchema(key) ==
    CASE key = "rect" -> RECT_PROPERTIES
      [] key = "ellipse" -> COMMON_SHAPE_PROPERTIES
      [] key = "line" -> LINE_PROPERTIES
      [] key = "polygon" -> POLYGON_PROPERTIES
      [] key = "star" -> STAR_PROPERTIES

\* for (const schema of LIST) props[schema.key] = schema.default, from index i on
RECURSIVE AssignDefaults(_, _, _)
AssignDefaults(list, i, acc) ==
    IF i > Len(list) THEN acc
    ELSE AssignDefaults(list, i + 1, Put(acc, list[i].key, list[i].default))

createDefault(key) == AssignDefaults(CreateDefaultSchema(key), 1, EmptyBag)

-----------------------------------------------------------------------------
(* validate: null or a non-empty list of errors (the en dash of the source's
   messages is written "-") *)

ValidationNull == [isNull |-> TRUE, errors |-> <<>>]
ValidationResult(errors) ==
    IF Len(errors) > 0 THEN [isNull |-> FALSE, errors |-> errors] ELSE ValidationNull
ValidationError(property, message) == [property |-> property, message |-> message]

rectValidate(properties) ==
    LET cr == Get(properties, "cornerRadius")
        errors == IF cr.t # "undefined" /\ (TypeOf(cr) # "number" \/ Lt(cr, Whole(0)))
                  THEN << ValidationError("cornerRadius", "Corner radius must be >= 0") >>
                  ELSE <<>>
    IN  ValidationResult(errors)

ellipseValidate(properties) == ValidationNull

lineValidate(properties) ==
    LET sw == Get(properties, "strokeWidth")
        errors == IF TypeOf(sw) # "number" \/ Lt(sw, Num(Fixed(0, 50)))
                  THEN << ValidationError("strokeWidth", "Line width must be >= 0.5") >>
                  ELSE <<>>
    IN  ValidationResult(errors)

polygonValidate(properties) ==
    LET sides == Get(properties, "sides")
        errors == IF TypeOf(sides) # "number" \/ Lt(sides, Whole(3)) \/ Gt(sides, Whole(100))
                  THEN << ValidationError("sides", "Sides must be 3-100") >>
                  ELSE <<>>
    IN  ValidationResult(errors)

\* mutation: the lower limit of innerRadius is 0.5 instead of 0.05
starValidate_InnerFrom50(properties) ==
    LET pts == Get(properties, "points")
        ir == Get(properties, "innerRadius")
        e1 == IF TypeOf(pts) # "number" \/ Lt(pts, Whole(3)) \/ Gt(pts, Whole(50))
              THEN << ValidationError("points", "Points must be 3-50") >>
              ELSE <<>>
        e2 == IF TypeOf(ir) # "number" \/ Lt(ir, Num(Fixed(0, 50))) \/ Gt(ir, Num(Fixed(0, 95)))
              THEN << ValidationError("innerRadius", "Inner radius must be 0.05-0.95") >>
              ELSE <<>>
    IN  ValidationResult(e1 \o e2)

starValidate(properties) ==
    LET pts == Get(properties, "points")
        ir == Get(properties, "innerRadius")
        e1 == IF TypeOf(pts) # "number" \/ Lt(pts, Whole(3)) \/ Gt(pts, Whole(50))
              THEN << ValidationError("points", "Points must be 3-50") >>
              ELSE <<>>
        e2 == IF TypeOf(ir) # "number" \/ Lt(ir, Num(Fixed(0, 5))) \/ Gt(ir, Num(Fixed(0, 95)))
              THEN << ValidationError("innerRadius", "Inner radius must be 0.05-0.95") >>
              ELSE <<>>
    IN  ValidationResult(e1 \o e2)

validate(key, properties) ==
    CASE key = "rect" -> rectValidate(properties)
      [] key = "ellipse" -> ellipseValidate(properties)
      [] key = "line" -> lineValidate(properties)
      [] key = "polygon" -> polygonValidate(properties)
      [] key = "star" -> starValidate(properties)

-----------------------------------------------------------------------------
(* the recording drawing context: the calls made on it in order, the paint
   state assigned to it, and the exception that ended the render, if any *)

\* an angle: a rational multiple of PI in lowest terms, or NaN
RatNaN == [t |-> "NaN", num |-> 0, den |-> 1]

NoVertex == [cx |-> Undef, cy |-> Undef, r |-> Undef, angle |-> RatNaN]

CtxCall(fn, args) == [fn |-> fn, args |-> args, at |-> NoVertex]
CtxCallAt(fn, vertex) == [fn |-> fn, args |-> <<>>, at |-> vertex]

createMockCtx ==
    [calls |-> <<>>, fillStyle |-> Str(""), strokeStyle |-> Str(""),
     lineWidth |-> Whole(0), lineCap |-> Str(""), threw |-> "none"]

Invoke(c, call) == [c EXCEPT !.calls = Append(@, call)]
Throw(c, error) == [c EXCEPT !.threw = error]


-----------------------------------------------------------------------------
(* shared style application *)

\* mutation: the stroke is painted whenever strokeEnabled is truthy, whatever the width
applyShapeStyle_NoWidthTest(properties, c) ==
    LET fillEnabled == Coalesce(Get(properties, "fillEnabled"), Bool(TRUE))
        strokeEnabled == Coalesce(Get(properties, "strokeEnabled"), Bool(FALSE))
        strokeWidth == Coalesce(Get(properties, "strokeWidth"), Whole(0))
        c1 == IF Truthy(fillEnabled)
              THEN Invoke([c EXCEPT !.fillStyle =
                              Coalesce(Get(properties, "fillColor"), Str("#ffffff"))],
                          CtxCall("fill", <<>>))
              ELSE c
    IN  IF Truthy(strokeEnabled)
        THEN Invoke([c1 EXCEPT !.strokeStyle =
                         Coalesce(Get(properties, "strokeColor"), Str("#000000")),
                                !.lineWidth = strokeWidth],
                    CtxCall("stroke", <<>>))
        ELSE c1

applyShapeStyle(properties, c) ==
    LET fillEnabled == Coalesce(Get(properties, "fillEnabled"), Bool(TRUE))
        strokeEnabled == Coalesce(Get(properties, "strokeEnabled"), Bool(FALSE))
        strokeWidth == Coalesce(Get(properties, "strokeWidth"), Whole(0))
        c1 == IF Truthy(fillEnabled)
              THEN Invoke([c EXCEPT !.fillStyle =
                              Coalesce(Get(properties, "fillColor"), Str("#ffffff"))],
                          CtxCall("fill", <<>>))
              ELSE c
    IN  IF Truthy(strokeEnabled) /\ Gt(strokeWidth, Whole(0))
        THEN Invoke([c1 EXCEPT !.strokeStyle =
                         Coalesce(Get(properties, "strokeColor"), Str("#000000")),
                                !.lineWidth = strokeWidth],
                    CtxCall("stroke", <<>>))
        ELSE c1

-----------------------------------------------------------------------------
(* geometry generators.  A vertex is kept in polar form: it stands for the
   point (cx + r cos a, cy + r sin a), and a is kept exactly, as a rational
   multiple of PI *)


RECURSIVE Gcd(_, _)
Gcd(a, b) == IF b = 0 THEN a ELSE Gcd(b, a % b)

\* num / den in lowest terms with a positive denominator
Rat(num, den) ==
    LET g == Gcd(Abs(num), Abs(den))
        sign == IF den < 0 THEN 0 - 1 ELSE 1
    IN  [t |-> "number", num |-> sign * (num \div g), den |-> sign * (den \div g)]

\* a number of the program as a rational
RatOf(v) ==
    LET x == ToNumber(v)
    IN  IF x.t = "NaN" THEN RatNaN ELSE Rat(x.n, 100)

\* sums are taken over the least common denominator and products cancel
\* across before multiplying, which keeps the integers small
RatAdd(a, b) ==
    IF a.t = "NaN" \/ b.t = "NaN" THEN RatNaN
    ELSE LET g == Gcd(a.den, b.den)
         IN  Rat(a.num * (b.den \div g) + b.num * (a.den \div g), (a.den \div g) * b.den)
RatSub(a, b) ==
    IF a.t = "NaN" \/ b.t = "NaN" THEN RatNaN
    ELSE RatAdd(a, [b EXCEPT !.num = 0 - b.num])
RatMul(a, b) ==
    IF a.t = "NaN" \/ b.t = "NaN" THEN RatNaN
    ELSE LET g1 == Gcd(Abs(a.num), b.den)
             g2 == Gcd(Abs(b.num), a.den)
         IN  Rat((a.num \div g1) * (b.num \div g2), (a.den \div g2) * (b.den \div g1))
\* a / b; the generators divide by the vertex count only, and a count of zero
\* generates no vertex, so the quotient by zero is never read
RatDiv(a, b) ==
    IF a.t = "NaN" \/ b.t = "NaN" \/ b.num = 0 THEN RatNaN
    ELSE RatMul(a, Rat(b.den, b.num))

\* Math.PI, in units of PI
MathPI == Rat(1, 1)

\* how many times the body of `for (let i = 0; i < n; i++)` runs
LoopCount(n) ==
    LET x == ToNumber(n)
    IN  IF x.t = "NaN" \/ x.n <= 0 THEN 0 ELSE (x.n + 99) \div 100

\* a * b on numbers
Times(a, b) ==
    LET x == ToNumber(a)
        y == ToNumber(b)
    IN  IF x.t = "NaN" \/ y.t = "NaN" THEN NaN ELSE Num((x.n * y.n) \div 100)

\* mutation: the start angle is rotation alone, so vertex 0 points right
polygonPoints_NoQuarterTurn(cx, cy, radius, sides, rotationDeg) ==
    LET angleStep == RatDiv(RatMul(MathPI, Rat(2, 1)), RatOf(sides))
        startAngle == RatDiv(RatMul(RatOf(rotationDeg), MathPI), Rat(180, 1))
    IN  [j \in 1..LoopCount(sides) |->
            [cx |-> cx, cy |-> cy, r |-> radius,
             angle |-> RatAdd(startAngle, RatMul(Rat(j - 1, 1), angleStep))]]

polygonPoints(cx, cy, radius, sides, rotationDeg) ==
    LET angleStep == RatDiv(RatMul(MathPI, Rat(2, 1)), RatOf(sides))
        startAngle == RatSub(RatDiv(RatMul(RatOf(rotationDeg), MathPI), Rat(180, 1)),
                             RatDiv(MathPI, Rat(2, 1)))
    IN  [j \in 1..LoopCount(sides) |->
            [cx |-> cx, cy |-> cy, r |-> radius,
             angle |-> RatAdd(startAngle, RatMul(Rat(j - 1, 1), angleStep))]]

\* mutation: the first vertex is an inner one
starPoints_InnerFirst(cx, cy, outerRadius, innerRadiusRatio, numPoints, rotationDeg) ==
    LET innerRadius == Times(outerRadius, innerRadiusRatio)
        angleStep == RatDiv(MathPI, RatOf(numPoints))
        startAngle == RatSub(RatDiv(RatMul(RatOf(rotationDeg), MathPI), Rat(180, 1)),
                             RatDiv(MathPI, Rat(2, 1)))
    IN  [j \in 1..LoopCount(Times(numPoints, Whole(2))) |->
            [cx |-> cx, cy |-> cy,
             r |-> IF (j - 1) % 2 = 1 THEN outerRadius ELSE innerRadius,
             angle |-> RatAdd(startAngle, RatMul(Rat(j - 1, 1), angleStep))]]

starPoints(cx, cy, outerRadius, innerRadiusRatio, numPoints, rotationDeg) ==
    LET innerRadius == Times(outerRadius, innerRadiusRatio)
        angleStep == RatDiv(MathPI, RatOf(numPoints))
        startAngle == RatSub(RatDiv(RatMul(RatOf(rotationDeg), MathPI), Rat(180, 1)),
                             RatDiv(MathPI, Rat(2, 1)))
    IN  [j \in 1..LoopCount(Times(numPoints, Whole(2))) |->
            [cx |-> cx, cy |-> cy,
             r |-> IF (j - 1) % 2 = 0 THEN outerRadius ELSE innerRadius,
             angle |-> RatAdd(startAngle, RatMul(Rat(j - 1, 1), angleStep))]]

\* ctx.lineTo(points[i]) for i = from .. points.length - 1
RECURSIVE LineToAll(_, _, _)
LineToAll(c, points, from) ==
    IF from > Len(points) THEN c
    ELSE LineToAll(Invoke(c, CtxCallAt("lineTo", points[from])), points, from + 1)

\* save, beginPath, moveTo(points[0]), lineTo the rest, closePath, paint, restore;
\* reading points[0].x of an empty list is a TypeError
\* mutation: the path is left open and the context is restored before painting
DrawClosedPath_RestoreBeforePaint(properties, c, points) ==
    LET c1 == Invoke(Invoke(c, CtxCall("save", <<>>)), CtxCall("beginPath", <<>>))
    IN  IF Len(points) = 0 THEN Throw(c1, "TypeError")
        ELSE LET c2 == Invoke(c1, CtxCallAt("moveTo", points[1]))
                 c3 == Invoke(LineToAll(c2, points, 2), CtxCall("restore", <<>>))
             IN  Invoke(applyShapeStyle(properties, c3), CtxCall("closePath", <<>>))

DrawClosedPath(properties, c, points) ==
    LET c1 == Invoke(Invoke(c, CtxCall("save", <<>>)), CtxCall("beginPath", <<>>))
    IN  IF Len(points) = 0 THEN Throw(c1, "TypeError")
        ELSE LET c2 == Invoke(c1, CtxCallAt("moveTo", points[1]))
                 c3 == Invoke(LineToAll(c2, points, 2), CtxCall("closePath", <<>>))
             IN  Invoke(applyShapeStyle(properties, c3), CtxCall("restore", <<>>))

-----------------------------------------------------------------------------
(* canvas render of each layer type *)

MathMin2(a, b) == MathMin3(a, b, b)

\* mutation: the corner radius is passed to roundRect unclamped
rectRender_Unclamped(properties, c, b) ==
    LET cornerRadius == Coalesce(Get(properties, "cornerRadius"), Whole(0))
        c1 == Invoke(Invoke(c, CtxCall("save", <<>>)), CtxCall("beginPath", <<>>))
        c2 == IF Gt(cornerRadius, Whole(0))
              THEN Invoke(c1, CtxCall("roundRect",
                                      <<b.x, b.y, b.width, b.height, cornerRadius>>))
              ELSE Invoke(c1, CtxCall("rect", <<b.x, b.y, b.width, b.height>>))
    IN  Invoke(applyShapeStyle(properties, c2), CtxCall("restore", <<>>))

rectRender(properties, c, b) ==
    LET cornerRadius == Coalesce(Get(properties, "cornerRadius"), Whole(0))
        c1 == Invoke(Invoke(c, CtxCall("save", <<>>)), CtxCall("beginPath", <<>>))
        c2 == IF Gt(cornerRadius, Whole(0))
              THEN LET r == MathMin3(cornerRadius, Half(b.width), Half(b.height))
                   IN  Invoke(c1, CtxCall("roundRect", <<b.x, b.y, b.width, b.height, r>>))
              ELSE Invoke(c1, CtxCall("rect", <<b.x, b.y, b.width, b.height>>))
    IN  Invoke(applyShapeStyle(properties, c2), CtxCall("restore", <<>>))

\* Math.PI * 2, to the hundredth
TwoPi == Num(Fixed(6, 28))

ellipseRender(properties, c, b) ==
    LET cx == Plus(b.x, Half(b.width))
        cy == Plus(b.y, Half(b.height))
        rx == Half(b.width)
        ry == Half(b.height)
        c1 == Invoke(Invoke(c, CtxCall("save", <<>>)), CtxCall("beginPath", <<>>))
        c2 == Invoke(c1, CtxCall("ellipse", <<cx, cy, rx, ry, Whole(0), Whole(0), TwoPi>>))
    IN  Invoke(applyShapeStyle(properties, c2), CtxCall("restore", <<>>))

\* dashStr.split(","): the pieces between the commas, as character sequences;
\* a string without a comma, the empty string included, is one piece
RECURSIVE SplitComma(_, _, _)
SplitComma(cs, i, piece) ==
    IF i > Len(cs) THEN <<piece>>
    ELSE IF cs[i] = "," THEN <<piece>> \o SplitComma(cs, i + 1, <<>>)
    ELSE SplitComma(cs, i + 1, Append(piece, cs[i]))

\* mutation: the filter keeps every number that is not negative, zero included
RECURSIVE ParseDashes_KeepZero(_, _)
ParseDashes_KeepZero(tokens, i) ==
    IF i > Len(tokens) THEN <<>>
    ELSE LET n == CharsToNumber(tokens[i])
         IN  (IF n.t # "NaN" /\ ~Lt(n, Whole(0)) THEN <<n>> ELSE <<>>)
             \o ParseDashes_KeepZero(tokens, i + 1)

\* split(",").map(Number).filter((n) => !isNaN(n) && n > 0)
RECURSIVE ParseDashes(_, _)
ParseDashes(tokens, i) ==
    IF i > Len(tokens) THEN <<>>
    ELSE LET n == CharsToNumber(tokens[i])
         IN  (IF n.t # "NaN" /\ Gt(n, Whole(0)) THEN <<n>> ELSE <<>>)
             \o ParseDashes(tokens, i + 1)

lineRender(properties, c, b) ==
    LET color == Coalesce(Get(properties, "strokeColor"), Str("#ffffff"))
        width == Coalesce(Get(properties, "strokeWidth"), Whole(2))
        cap == Coalesce(Get(properties, "lineCap"), Str("round"))
        dashStr == Coalesce(Get(properties, "dashPattern"), Str(""))
        c1 == Invoke(Invoke(c, CtxCall("save", <<>>)), CtxCall("beginPath", <<>>))
        c2 == Invoke(c1, CtxCall("moveTo", <<b.x, b.y>>))
        c3 == Invoke(c2, CtxCall("lineTo", <<Plus(b.x, b.width), Plus(b.y, b.height)>>))
        c4 == [c3 EXCEPT !.strokeStyle = color, !.lineWidth = width, !.lineCap = cap]
        dashes == ParseDashes(SplitComma(Chars(dashStr.s), 1, <<>>), 1)
        finish(d) == Invoke(Invoke(d, CtxCall("stroke", <<>>)), CtxCall("restore", <<>>))
    IN  IF ~Truthy(dashStr) THEN finish(c4)
        ELSE IF dashStr.t # "string" THEN Throw(c4, "TypeError")
        ELSE IF Len(dashes) > 0 THEN finish(Invoke(c4, CtxCall("setLineDash", dashes)))
        ELSE finish(c4)

polygonRender(properties, c, b) ==
    LET sides == Coalesce(Get(properties, "sides"), Whole(6))
        rotation == Coalesce(Get(properties, "rotation"), Whole(0))
        cx == Plus(b.x, Half(b.width))
        cy == Plus(b.y, Half(b.height))
        radius == Half(MathMin2(b.width, b.height))
    IN  DrawClosedPath(properties, c, polygonPoints(cx, cy, radius, sides, rotation))

starRender(properties, c, b) ==
    LET numPoints == Coalesce(Get(properties, "points"), Whole(5))
        innerRadiusRatio == Coalesce(Get(properties, "innerRadius"), Num(Fixed(0, 40)))
        rotation == Coalesce(Get(properties, "rotation"), Whole(0))
        cx == Plus(b.x, Half(b.width))
        cy == Plus(b.y, Half(b.height))
        outerRadius == Half(MathMin2(b.width, b.height))
    IN  DrawClosedPath(properties, c,
            starPoints(cx, cy, outerRadius, innerRadiusRatio, numPoints, rotation))

render(key, properties, c, b) ==
    CASE key = "rect" -> rectRender(properties, c, b)
      [] key = "ellipse" -> ellipseRender(properties, c, b)
      [] key = "line" -> lineRender(properties, c, b)
      [] key = "polygon" -> polygonRender(properties, c, b)
      [] key = "star" -> starRender(properties, c, b)

-----------------------------------------------------------------------------
(* SVG render of each layer type: the element the returned text spells, as its
   tag and its attributes in order; an attribute holds the value the template
   interpolates, the points attribute the vertex list *)

SvgAttr(name, value) == [name |-> name, value |-> value, points |-> <<>>]
SvgPoints(points) == [name |-> "points", value |-> Undef, points |-> points]
SvgElement(tag, attrs) == [tag |-> tag, attrs |-> attrs]
NoSvg == SvgElement("", <<>>)

\* fill, stroke and stroke-width, emitted whatever fillEnabled and strokeEnabled say
SvgPaintAttrs(properties) ==
    << SvgAttr("fill", Coalesce(Get(properties, "fillColor"), Str("#ffffff"))),
       SvgAttr("stroke", Coalesce(Get(properties, "strokeColor"), Str("#000000"))),
       SvgAttr("stroke-width", Coalesce(Get(properties, "strokeWidth"), Whole(0))) >>

rectRenderSVG(properties, b) ==
    LET cornerRadius == Coalesce(Get(properties, "cornerRadius"), Whole(0))
    IN  SvgElement("rect",
            << SvgAttr("x", b.x), SvgAttr("y", b.y), SvgAttr("width", b.width),
               SvgAttr("height", b.height), SvgAttr("rx", cornerRadius) >>
            \o SvgPaintAttrs(properties))

ellipseRenderSVG(properties, b) ==
    LET cx == Plus(b.x, Half(b.width))
        cy == Plus(b.y, Half(b.height))
    IN  SvgElement("ellipse",
            << SvgAttr("cx", cx), SvgAttr("cy", cy), SvgAttr("rx", Half(b.width)),
               SvgAttr("ry", Half(b.height)) >>
            \o SvgPaintAttrs(properties))

lineRenderSVG(properties, b) ==
    LET color == Coalesce(Get(properties, "strokeColor"), Str("#ffffff"))
        width == Coalesce(Get(properties, "strokeWidth"), Whole(2))
        cap == Coalesce(Get(properties, "lineCap"), Str("round"))
    IN  SvgElement("line",
            << SvgAttr("x1", b.x), SvgAttr("y1", b.y), SvgAttr("x2", Plus(b.x, b.width)),
               SvgAttr("y2", Plus(b.y, b.height)), SvgAttr("stroke", color),
               SvgAttr("stroke-width", width), SvgAttr("stroke-linecap", cap) >>)

polygonRenderSVG(properties, b) ==
    LET sides == Coalesce(Get(properties, "sides"), Whole(6))
        rotation == Coalesce(Get(properties, "rotation"), Whole(0))
        cx == Plus(b.x, Half(b.width))
        cy == Plus(b.y, Half(b.height))
        radius == Half(MathMin2(b.width, b.height))
    IN  SvgElement("polygon",
            << SvgPoints(polygonPoints(cx, cy, radius, sides, rotation)) >>
            \o SvgPaintAttrs(properties))

starRenderSVG(properties, b) ==
    LET numPoints == Coalesce(Get(properties, "points"), Whole(5))
        innerRadiusRatio == Coalesce(Get(properties, "innerRadius"), Num(Fixed(0, 40)))
        rotation == Coalesce(Get(properties, "rotation"), Whole(0))
        cx == Plus(b.x, Half(b.width))
        cy == Plus(b.y, Half(b.height))
        outerRadius == Half(MathMin2(b.width, b.height))
    IN  SvgElement("polygon",
            << SvgPoints(starPoints(cx, cy, outerRadius, innerRadiusRatio, numPoints,
                                    rotation)) >>
            \o SvgPaintAttrs(properties))

renderSVG(key, properties, b) ==
    CASE key = "rect" -> rectRenderSVG(properties, b)
      [] key = "ellipse" -> ellipseRenderSVG(properties, b)
      [] key = "line" -> lineRenderSVG(properties, b)
      [] key = "polygon" -> polygonRenderSVG(properties, b)
      [] key = "star" -> starRenderSVG(properties, b)

-----------------------------------------------------------------------------
(* tool results and the host context *)

\* a tool result: the text as its pieces in order, and the isError key
textResult(text) == [settled |-> "resolved", text |-> text, isError |-> Undef]
errorResult(text) == [settled |-> "resolved", text |-> text, isError |-> Bool(TRUE)]
\* the handler's promise rejects with an exception instead of resolving
Rejected(error) == [settled |-> "rejected", text |-> <<Str(error)>>, isError |-> Undef]
NoResult == [settled |-> "none", text |-> <<>>, isError |-> Undef]

Transform(x, y, width, height, anchorX, anchorY) ==
    [x |-> x, y |-> y, width |-> width, height |-> height, rotation |-> Whole(0),
     scaleX |-> Whole(1), scaleY |-> Whole(1), anchorX |-> anchorX, anchorY |-> anchorY]

DesignLayer(id, type, name, transform, properties) ==
    [id |-> id, type |-> type, name |-> name, visible |-> TRUE, locked |-> FALSE,
     opacity |-> Whole(1), blendMode |-> "normal", transform |-> transform,
     properties |-> properties]

NoLayer == DesignLayer("", "", "", Transform(Undef, Undef, Undef, Undef, Undef, Undef), EmptyBag)

\* a layer the host already holds
createMockLayer(type) ==
    DesignLayer("layer-1", type, "Rectangle",
                Transform(Whole(100), Whole(100), Whole(200), Whole(200),
                          Num(Fixed(0, 50)), Num(Fixed(0, 50))),
                Put(Put(EmptyBag, "fillColor", Str("#ffffff")), "fillEnabled", Bool(TRUE)))

\* calls on the host context
CallAdd(layer) ==
    [fn |-> "add", layer |-> layer, layerId |-> Undef, updates |-> EmptyBag, event |-> ""]
CallUpdateProperties(layerId, updates) ==
    [fn |-> "updateProperties", layer |-> NoLayer, layerId |-> layerId,
     updates |-> updates, event |-> ""]
CallEmitChange(event) ==
    [fn |-> "emitChange", layer |-> NoLayer, layerId |-> Undef, updates |-> EmptyBag,
     event |-> event]

\* what one invocation of a handler did: its host calls in order and its result
Outcome(calls, res) == [calls |-> calls, result |-> res]

\* layers.get(id): the layer last stored under the id, or null
RECURSIVE LayersGetFrom(_, _, _)
LayersGetFrom(ls, id, i) ==
    IF i = 0 THEN NoLayer
    ELSE IF ls[i].id = id THEN ls[i]
    ELSE LayersGetFrom(ls, id, i - 1)

LayersHas(ls, id) == id.t = "string" /\ \E i \in 1..Len(ls) : ls[i].id = id.s
LayersGet(ls, id) == LayersGetFrom(ls, id.s, Len(ls))

\* x.startsWith(prefix)
StartsWith(x, prefix) ==
    LET c == Chars(x)
        p == Chars(prefix)
    IN  Len(c) >= Len(p) /\ SubSeq(c, 1, Len(p)) = p

-----------------------------------------------------------------------------
(* add_shape *)

\* the own keys of SHAPE_TYPES
SHAPE_TYPES == {"rect", "ellipse", "polygon", "star"}

\* keys every plain object inherits from Object.prototype
ObjectPrototypeKeys ==
    {"constructor", "__defineGetter__", "__defineSetter__", "hasOwnProperty",
     "__lookupGetter__", "__lookupSetter__", "isPrototypeOf", "propertyIsEnumerable",
     "toString", "valueOf", "__proto__", "toLocaleString"}

\* SHAPE_TYPES[shapeKey]: "layerType" for an own key, "inherited" for a member of
\* Object.prototype (truthy, and without a createDefault), "undefined" otherwise
ShapeTypesLookup(shapeKey) ==
    IF shapeKey.t = "string" /\ shapeKey.s \in SHAPE_TYPES THEN "layerType"
    ELSE IF shapeKey.t = "string" /\ shapeKey.s \in ObjectPrototypeKeys THEN "inherited"
    ELSE "undefined"

\* if (input[k] !== undefined) properties[k] = input[k]
Override(properties, input, k) ==
    IF Get(input, k).t # "undefined" THEN Put(properties, k, Get(input, k)) ELSE properties

\* mutation: a supplied strokeWidth enables the stroke without the > 0 test
MergeShapeInput_AlwaysEnable(defaults, input) ==
    LET p1 == Override(defaults, input, "fillColor")
        p2 == Override(p1, input, "strokeColor")
        p3 == IF Get(input, "strokeWidth").t # "undefined"
              THEN Put(Put(p2, "strokeWidth", Get(input, "strokeWidth")),
                       "strokeEnabled", Bool(TRUE))
              ELSE p2
        p4 == Override(p3, input, "sides")
        p5 == Override(p4, input, "points")
    IN  Override(p5, input, "cornerRadius")

\* { ...defaults } followed by the merge of the user-provided properties
MergeShapeInput(defaults, input) ==
    LET p1 == Override(defaults, input, "fillColor")
        p2 == Override(p1, input, "strokeColor")
        p3 == IF Get(input, "strokeWidth").t # "undefined"
              THEN Put(Put(p2, "strokeWidth", Get(input, "strokeWidth")),
                       "strokeEnabled", Bool(Gt(Get(input, "strokeWidth"), Whole(0))))
              ELSE p2
        p4 == Override(p3, input, "sides")
        p5 == Override(p4, input, "points")
    IN  Override(p5, input, "cornerRadius")

addShapeHandler(input, id) ==
    LET shapeKey == Get(input, "shape")
        found == ShapeTypesLookup(shapeKey)
    IN  IF found = "undefined"
        THEN Outcome(<<>>, errorResult(<<Str("Unknown shape type '"), shapeKey, Str("'.")>>))
        ELSE IF found = "inherited"
        THEN Outcome(<<>>, Rejected("TypeError"))
        ELSE LET shapeDef == LayerType(shapeKey.s)
                 properties == MergeShapeInput(createDefault(shapeKey.s), input)
                 transform == Transform(Coalesce(Get(input, "x"), Whole(100)),
                                        Coalesce(Get(input, "y"), Whole(100)),
                                        Coalesce(Get(input, "width"), Whole(200)),
                                        Coalesce(Get(input, "height"), Whole(200)),
                                        Num(Fixed(0, 50)), Num(Fixed(0, 50)))
                 layer == DesignLayer(id, shapeDef.typeId, shapeDef.displayName,
                                      transform, properties)
             IN  Outcome(<<CallAdd(layer), CallEmitChange("layer-added")>>,
                         textResult(<<Str("Added "), Str(shapeDef.displayName),
                                      Str(" layer '"), Str(id), Str("'.")>>))

-----------------------------------------------------------------------------
(* set_shape_style *)

StyleKeys == <<"fillColor", "fillEnabled", "strokeColor", "strokeWidth", "strokeEnabled">>

\* for (const key of keys) if (input[key] !== undefined) updates[key] = input[key]
RECURSIVE CollectUpdates(_, _, _, _)
CollectUpdates(input, keys, i, updates) ==
    IF i > Len(keys) THEN updates
    ELSE CollectUpdates(input, keys, i + 1, Override(updates, input, keys[i]))

\* mutation: the empty-update test runs before the layer is looked up
setShapeStyleHandler_EmptyFirst(input, ls) ==
    LET layerId == Get(input, "layerId")
        updates == CollectUpdates(input, StyleKeys, 1, EmptyBag)
    IN  IF Cardinality(DOMAIN updates) = 0
        THEN Outcome(<<>>, errorResult(<<Str("No style properties provided.")>>))
        ELSE IF ~LayersHas(ls, layerId)
        THEN Outcome(<<>>, errorResult(<<Str("Layer '"), layerId, Str("' not found.")>>))
        ELSE IF ~StartsWith(LayersGet(ls, layerId).type, "shapes:")
        THEN Outcome(<<>>, errorResult(<<Str("Layer '"), layerId,
                                         Str("' is not a shape layer.")>>))
        ELSE Outcome(<<CallUpdateProperties(layerId, updates),
                       CallEmitChange("layer-updated")>>,
                     textResult(<<Str("Updated style on shape layer '"), layerId,
                                  Str("'.")>>))

setShapeStyleHandler(input, ls) ==
    LET layerId == Get(input, "layerId")
        updates == CollectUpdates(input, StyleKeys, 1, EmptyBag)
    IN  IF ~LayersHas(ls, layerId)
        THEN Outcome(<<>>, errorResult(<<Str("Layer '"), layerId, Str("' not found.")>>))
        ELSE IF ~StartsWith(LayersGet(ls, layerId).type, "shapes:")
        THEN Outcome(<<>>, errorResult(<<Str("Layer '"), layerId,
                                         Str("' is not a shape layer.")>>))
        ELSE IF Cardinality(DOMAIN updates) = 0
        THEN Outcome(<<>>, errorResult(<<Str("No style properties provided.")>>))
        ELSE Outcome(<<CallUpdateProperties(layerId, updates),
                       CallEmitChange("layer-updated")>>,
                     textResult(<<Str("Updated style on shape layer '"), layerId,
                                  Str("'.")>>))

-----------------------------------------------------------------------------
(* set_polygon *)

\* mutation: the update is validated first and a rejected value is an error
setPolygonHandler_Validating(input, ls) ==
    LET layerId == Get(input, "layerId")
        updates == Override(Override(EmptyBag, input, "sides"), input, "rotation")
    IN  IF ~LayersHas(ls, layerId)
        THEN Outcome(<<>>, errorResult(<<Str("Layer '"), layerId, Str("' not found.")>>))
        ELSE IF LayersGet(ls, layerId).type # "shapes:polygon"
        THEN Outcome(<<>>, errorResult(<<Str("Layer '"), layerId,
                                         Str("' is not a polygon layer.")>>))
        ELSE IF "sides" \in DOMAIN updates /\ ~polygonValidate(updates).isNull
        THEN Outcome(<<>>, errorResult(<<Str("Sides must be 3-100")>>))
        ELSE Outcome(<<CallUpdateProperties(layerId, updates),
                       CallEmitChange("layer-updated")>>,
                     textResult(<<Str("Updated polygon layer '"), layerId, Str("'.")>>))

setPolygonHandler(input, ls) ==
    LET layerId == Get(input, "layerId")
        updates == Override(Override(EmptyBag, input, "sides"), input, "rotation")
    IN  IF ~LayersHas(ls, layerId)
        THEN Outcome(<<>>, errorResult(<<Str("Layer '"), layerId, Str("' not found.")>>))
        ELSE IF LayersGet(ls, layerId).type # "shapes:polygon"
        THEN Outcome(<<>>, errorResult(<<Str("Layer '"), layerId,
                                         Str("' is not a polygon layer.")>>))
        ELSE Outcome(<<CallUpdateProperties(layerId, updates),
                       CallEmitChange("layer-updated")>>,
                     textResult(<<Str("Updated polygon layer '"), layerId, Str("'.")>>))

-----------------------------------------------------------------------------
(* add_line *)

MergeLineInput(defaults, input) ==
    Override(Override(defaults, input, "strokeColor"), input, "strokeWidth")

\* mutation: the layer is added without the change notification
addLineHandler_NoEmit(input, id) ==
    LET x1 == Coalesce(Get(input, "x1"), Whole(0))
        y1 == Coalesce(Get(input, "y1"), Whole(0))
        x2 == Coalesce(Get(input, "x2"), Whole(200))
        y2 == Coalesce(Get(input, "y2"), Whole(200))
        properties == MergeLineInput(createDefault("line"), input)
        layer == DesignLayer(id, "shapes:line", "Line",
                             Transform(x1, y1, Minus(x2, x1), Minus(y2, y1),
                                       Whole(0), Whole(0)),
                             properties)
    IN  Outcome(<<CallAdd(layer)>>,
                textResult(<<Str("Added line layer '"), Str(id), Str("' from ("), x1,
                             Str(","), y1, Str(") to ("), x2, Str(","), y2, Str(").")>>))

\* mutation: the stored extent is the distance between the endpoints, unsigned
addLineHandler_UnsignedExtent(input, id) ==
    LET x1 == Coalesce(Get(input, "x1"), Whole(0))
        y1 == Coalesce(Get(input, "y1"), Whole(0))
        x2 == Coalesce(Get(input, "x2"), Whole(200))
        y2 == Coalesce(Get(input, "y2"), Whole(200))
        w == Minus(x2, x1)
        h == Minus(y2, y1)
        properties == MergeLineInput(createDefault("line"), input)
        layer == DesignLayer(id, "shapes:line", "Line",
                             Transform(x1, y1,
                                       IF w.t = "NaN" THEN NaN ELSE Num(Abs(w.n)),
                                       IF h.t = "NaN" THEN NaN ELSE Num(Abs(h.n)),
                                       Whole(0), Whole(0)),
                             properties)
    IN  Outcome(<<CallAdd(layer), CallEmitChange("layer-added")>>,
                textResult(<<Str("Added line layer '"), Str(id), Str("' from ("), x1,
                             Str(","), y1, Str(") to ("), x2, Str(","), y2, Str(").")>>))

addLineHandler(input, id) ==
    LET x1 == Coalesce(Get(input, "x1"), Whole(0))
        y1 == Coalesce(Get(input, "y1"), Whole(0))
        x2 == Coalesce(Get(input, "x2"), Whole(200))
        y2 == Coalesce(Get(input, "y2"), Whole(200))
        properties == MergeLineInput(createDefault("line"), input)
        layer == DesignLayer(id, "shapes:line", "Line",
                             Transform(x1, y1, Minus(x2, x1), Minus(y2, y1),
                                       Whole(0), Whole(0)),
                             properties)
    IN  Outcome(<<CallAdd(layer), CallEmitChange("layer-added")>>,
                textResult(<<Str("Added line layer '"), Str(id), Str("' from ("), x1,
                             Str(","), y1, Str(") to ("), x2, Str(","), y2, Str(").")>>))

-----------------------------------------------------------------------------
(* list_shapes *)

ListedShapes == <<"rect", "ellipse", "line", "polygon", "star">>

\* s.properties.map((p) => p.key).join(", "), as the pieces of the joined text
RECURSIVE PropertyKeys(_, _)
PropertyKeys(list, i) ==
    IF i > Len(list) THEN <<>>
    ELSE (IF i > 1 THEN <<Str(", ")>> ELSE <<>>) \o <<Str(list[i].key)>>
         \o PropertyKeys(list, i + 1)

\* one line per shape, joined with newlines (the bullet and the dash of the
\* source text are written "*" and "-")
RECURSIVE ShapeLines(_, _)
ShapeLines(keys, i) ==
    IF i > Len(keys) THEN <<>>
    ELSE LET s == LayerType(keys[i])
         IN  (IF i > 1 THEN <<Str("\n")>> ELSE <<>>)
             \o <<Str("* "), Str(s.displayName), Str(" ("), Str(s.typeId),
                  Str(") - properties: ")>>
             \o PropertyKeys(s.properties, 1)
             \o ShapeLines(keys, i + 1)

listShapesHandler ==
    Outcome(<<>>, textResult(<<Str("Available shapes:\n")>> \o ShapeLines(ListedShapes, 1)))

-----------------------------------------------------------------------------
(* bounds and input sets *)

MaxCalls == 3
MaxLayers == 2

\* every bag that gives each key one of its values; the value undefined leaves the key out
RECURSIVE BagProduct(_)
BagProduct(choices) ==
    IF choices = <<>> THEN {EmptyBag}
    ELSE LET rest == BagProduct(Tail(choices))
             k == Head(choices)[1]
         IN  UNION {{IF v.t = "undefined" THEN bag ELSE Put(bag, k, v) : bag \in rest} :
                    v \in Head(choices)[2]}

\* `layer-<time>-<random>`: two of the identifiers generateLayerId can return
GeneratedIds == {"layer-m3x9k2-a1b2c3", "layer-m3x9k2-d4e5f6"}

InitialStacks ==
    {<<>>} \cup {<<createMockLayer(t)>> : t \in {"shapes:rect", "shapes:polygon", "typography:text"}}

InitialStacksWide ==
    InitialStacks \cup
    {<<createMockLayer(t)>> :
        t \in {"shapes:star", "shapes:line", "shapes:custom", "shapes", "Shapes:rect",
               "my-shapes:rect"}}

LayerIdInputs == {Str("layer-1"), Str("missing")} \cup {Str(id) : id \in GeneratedIds}

AddShapeInputs ==
    BagProduct(<< <<"shape", {Str("star"), Str("polygon"), Str("hexaflop"), Str("constructor")}>>,
                  <<"points", {Undef, Whole(8)}>> >>)

AddShapeInputsWide ==
    BagProduct(<< <<"shape", {Undef, Str("rect"), Str("ellipse"), Str("polygon"), Str("star"),
                              Str("hexaflop"), Str("line"), Str(""), Str("constructor"),
                              Str("toString"), Str("__proto__"),
                              Str("__defineGetter__")}>>,
                  <<"fillColor", {Undef, Str("#ff0000")}>>,
                  <<"strokeColor", {Undef, Str("#0000ff")}>>,
                  <<"strokeWidth", {Undef, Whole(0), Whole(3)}>>,
                  <<"sides", {Undef, Whole(2)}>>,
                  <<"points", {Undef, Whole(8)}>>,
                  <<"cornerRadius", {Undef, Whole(10)}>> >>)
    \cup
    BagProduct(<< <<"shape", {Str("rect"), Str("star")}>>,
                  <<"x", {Whole(50)}>>,
                  <<"y", {Undef, Whole(50)}>>,
                  <<"width", {Null, Whole(40)}>>,
                  <<"height", {Undef, Whole(100)}>> >>)

SetShapeStyleInputs ==
    BagProduct(<< <<"layerId", LayerIdInputs>>,
                  <<"fillColor", {Undef, Str("#00ff00")}>>,
                  <<"strokeWidth", {Undef, Whole(3)}>> >>)

SetShapeStyleInputsWide ==
    BagProduct(<< <<"layerId", LayerIdInputs \cup {Undef}>>,
                  <<"fillColor", {Undef, Null, Str("#00ff00")}>>,
                  <<"fillEnabled", {Undef, Bool(FALSE)}>>,
                  <<"strokeColor", {Undef, Str("#ff0000")}>>,
                  <<"strokeWidth", {Undef, Whole(0), Whole(3)}>>,
                  <<"strokeEnabled", {Undef, Bool(TRUE)}>>,
                  <<"sides", {Undef, Whole(8)}>> >>)

SetPolygonInputs ==
    BagProduct(<< <<"layerId", LayerIdInputs>>,
                  <<"sides", {Undef, Whole(8)}>> >>)

SetPolygonInputsWide ==
    BagProduct(<< <<"layerId", LayerIdInputs \cup {Undef}>>,
                  <<"sides", {Undef, Null, Whole(2), Whole(8)}>>,
                  <<"rotation", {Undef, Whole(45)}>>,
                  <<"fillColor", {Undef, Str("#00ff00")}>> >>)

AddLineInputs ==
    BagProduct(<< <<"x1", {Undef, Whole(10)}>>,
                  <<"strokeColor", {Undef, Str("#00ff00")}>> >>)

AddLineInputsWide ==
    BagProduct(<< <<"x1", {Undef, Whole(10), Whole(300)}>>,
                  <<"y1", {Undef, Whole(20), Whole(450)}>>,
                  <<"x2", {Undef, Null, Whole(30)}>>,
                  <<"y2", {Undef, Whole(400)}>>,
                  <<"strokeColor", {Undef, Str("#00ff00")}>>,
                  <<"strokeWidth", {Undef, Whole(0), Whole(5)}>> >>)
    \cup
    BagProduct(<< <<"x1", {Str("6"), Str("abc"), NaN}>>,
                  <<"x2", {Undef, Bool(TRUE)}>>,
                  <<"y2", {Undef, Str("3")}>> >>)

CommonChoices ==
    << <<"fillColor", {Undef, Str("#ff0000")}>>,
       <<"fillEnabled", {Undef, Null, Bool(TRUE), Bool(FALSE)}>>,
       <<"strokeColor", {Undef, Str("#0000ff")}>>,
       <<"strokeWidth", {Undef, Whole(0), Whole(3)}>>,
       <<"strokeEnabled", {Undef, Bool(TRUE), Bool(FALSE)}>> >>

TypeBags(key) ==
    CASE key = "rect" ->
            BagProduct(CommonChoices \o
                << <<"cornerRadius", {Undef, Null, Whole(0), Whole(10), Whole(100),
                                      Whole(0 - 5), NaN, Str("abc")}>> >>)
      [] key = "ellipse" -> BagProduct(CommonChoices)
      [] key = "line" ->
            BagProduct(<< <<"strokeColor", {Undef, Str("#00ff00")}>>,
                          <<"strokeWidth", {Undef, Whole(0), Whole(5)}>>,
                          <<"lineCap", {Undef, Str("butt")}>>,
                          <<"dashPattern", {Undef, Str(""), Str("5,3"), Str("0,-2,abc"),
                                            Str("4,,0,6"), Str("1.5, 2"), Whole(5), Bool(TRUE)}>> >>)
      [] key = "polygon" ->
            BagProduct(CommonChoices \o
                << <<"sides", {Undef, Null, Whole(0), Whole(2), Whole(3), Whole(6),
                               Num(Fixed(2, 50)), Whole(0 - 1), NaN, Str("abc"), Str("6")}>>,
                   <<"rotation", {Undef, Whole(45)}>> >>)
      [] key = "star" ->
            BagProduct(CommonChoices \o
                << <<"points", {Undef, Whole(0), Whole(2), Whole(5), Whole(8), NaN,
                                Str("abc")}>>,
                   <<"innerRadius", {Undef, Whole(0), Num(Fixed(0, 50))}>>,
                   <<"rotation", {Undef, Whole(45)}>> >>)

\* bags for the validators: every kind of value on the constrained keys, with
\* the limits of each range and their neighbours
ValidateBags(key) ==
    CASE key = "polygon" ->
            BagProduct(<< <<"sides", {Undef, Null, Whole(0), Whole(2), Num(Fixed(2, 99)),
                                      Whole(3), Whole(6), Whole(100), Num(Fixed(100, 1)),
                                      Whole(101), Whole(0 - 1), NaN, Str("abc"), Str("6"),
                                      Bool(TRUE)}>>,
                          <<"rotation", {Undef, Whole(45), Whole(400), NaN}>>,
                          <<"fillEnabled", {Undef, Bool(FALSE)}>>,
                          <<"strokeWidth", {Undef, Whole(0 - 1)}>> >>)
      [] key = "star" ->
            BagProduct(<< <<"points", {Undef, Null, Whole(2), Whole(3), Whole(5), Whole(50),
                                       Whole(51), NaN, Str("abc")}>>,
                          <<"innerRadius", {Undef, Null, Whole(0), Num(Fixed(0, 4)),
                                            Num(Fixed(0, 5)), Num(Fixed(0, 50)),
                                            Num(Fixed(0, 95)), Num(Fixed(0, 96)), NaN,
                                            Str("abc")}>>,
                          <<"rotation", {Undef, NaN}>>,
                          <<"fillEnabled", {Undef, Bool(FALSE)}>> >>)

Bounds(x, y, width, height) ==
    [x |-> Whole(x), y |-> Whole(y), width |-> Whole(width), height |-> Whole(height)]

BoundsInputs == {Bounds(0, 0, 200, 200), Bounds(0, 0, 40, 100), Bounds(10, 20, 100, 40)}

-----------------------------------------------------------------------------
(* the tool invocations *)

CountHostCalls(calls, fn) == Cardinality({i \in 1..Len(calls) : calls[i].fn = fn})

\* layers.add of the mock host: layers.push(layer)
RECURSIVE PushAdded(_, _, _)
PushAdded(ls, calls, i) ==
    IF i > Len(calls) THEN ls
    ELSE PushAdded(IF calls[i].fn = "add" THEN Append(ls, calls[i].layer) ELSE ls,
                   calls, i + 1)

NonError(res) == res.settled = "resolved" /\ ~Truthy(res.isError)

\* one invocation of a handler against the host context
Invocation(name, in, outcome) ==
    /\ tool' = name
    /\ lastInput' = in
    /\ layers' = PushAdded(layers, outcome.calls, 1)
    /\ hostCalls' = outcome.calls
    /\ result' = outcome.result
    /\ nAdd' = nAdd + CountHostCalls(outcome.calls, "add")
    /\ nUpdate' = nUpdate + CountHostCalls(outcome.calls, "updateProperties")
    /\ nEmit' = nEmit + CountHostCalls(outcome.calls, "emitChange")
    /\ nOk' = nOk + (IF name # "list_shapes" /\ NonError(outcome.result) THEN 1 ELSE 0)
    /\ nCalls' = nCalls + 1
    /\ UNCHANGED typeVars
    /\ UNCHANGED geomVars
    /\ UNCHANGED heapVars

AddShape(in, id) == Invocation("add_shape", in, addShapeHandler(in, id))
SetShapeStyle(in) == Invocation("set_shape_style", in, setShapeStyleHandler(in, layers))
SetPolygon(in) == Invocation("set_polygon", in, setPolygonHandler(in, layers))
AddLine(in, id) == Invocation("add_line", in, addLineHandler(in, id))
ListShapes == Invocation("list_shapes", EmptyBag, listShapesHandler)

\* the host draws the line layer the last add_line passed to layers.add: the
\* line's render over the layer's own transform box
RenderAddedLine ==
    /\ tool = "add_line"
    /\ op = "none"
    /\ Len(hostCalls) >= 1
    /\ hostCalls[1].fn = "add"
    /\ LET layer == hostCalls[1].layer
           box == [x |-> layer.transform.x, y |-> layer.transform.y,
                   width |-> layer.transform.width, height |-> layer.transform.height]
       IN  /\ ltype' = "line"
           /\ props' = layer.properties
           /\ origin' = "layer"
           /\ bounds' = box
           /\ ctx' = render("line", layer.properties, createMockCtx, box)
           /\ validation' = [isNull |-> FALSE, errors |-> <<>>]
           /\ op' = "render"
           /\ svg' = NoSvg
    /\ UNCHANGED toolVars
    /\ UNCHANGED geomVars
    /\ UNCHANGED heapVars

-----------------------------------------------------------------------------
(* the layer type operations, applied to a bag and bounds; each starts from a
   fresh recording context *)

TypeOp(name, newProps, newOrigin, newCtx, newValidation) ==
    /\ op' = name
    /\ props' = newProps
    /\ origin' = newOrigin
    /\ ctx' = newCtx
    /\ validation' = newValidation
    /\ svg' = NoSvg
    /\ UNCHANGED <<ltype, bounds>>
    /\ UNCHANGED toolVars
    /\ UNCHANGED geomVars
    /\ UNCHANGED heapVars

NotValidated == [isNull |-> FALSE, errors |-> <<>>]

CreateDefault ==
    TypeOp("createDefault", createDefault(ltype), "createDefault", createMockCtx, NotValidated)
Validate ==
    TypeOp("validate", props, origin, createMockCtx, validate(ltype, props))
Render ==
    TypeOp("render", props, origin, render(ltype, props, createMockCtx, bounds), NotValidated)
ApplyShapeStyle ==
    TypeOp("applyShapeStyle", props, origin, applyShapeStyle(props, createMockCtx), NotValidated)

\* the SVG export of the layer that has just been drawn: the recording of the
\* canvas render stays beside the element
RenderSVG ==
    /\ op = "render"
    /\ op' = "renderSVG"
    /\ svg' = renderSVG(ltype, props, bounds)
    /\ UNCHANGED <<ltype, props, origin, bounds, ctx, validation>>
    /\ UNCHANGED toolVars
    /\ UNCHANGED geomVars
    /\ UNCHANGED heapVars

-----------------------------------------------------------------------------
(* the vertex generators, called directly *)

GeomCall(fn, cx, cy, radius, ratio, count, rotationDeg) ==
    [fn |-> fn, cx |-> cx, cy |-> cy, radius |-> radius, ratio |-> ratio,
     count |-> count, rotationDeg |-> rotationDeg, returned |-> FALSE]

NoGeom == GeomCall("none", Undef, Undef, Undef, Undef, Undef, Undef)

\* the whole numbers from a schema entry's min to its max
SchemaRange(schema) == {Whole(n) : n \in (schema.min.n \div 100)..(schema.max.n \div 100)}

Centers == {<<Whole(100), Whole(100), Whole(100)>>, <<Whole(60), Whole(40), Whole(20)>>}
Rotations == {Whole(0), Whole(45), Whole(90), Num(Fixed(359, 50))}

PolygonPointsInputs ==
    {GeomCall("polygonPoints", c[1], c[2], c[3], Undef, sides, rotationDeg) :
        c \in Centers, sides \in SchemaRange(POLYGON_PROPERTIES[6]), rotationDeg \in Rotations}

StarPointsInputs ==
    {GeomCall("starPoints", c[1], c[2], c[3], ratio, numPoints, rotationDeg) :
        c \in Centers, ratio \in {Num(Fixed(0, 40)), Num(Fixed(0, 95))},
        numPoints \in SchemaRange(STAR_PROPERTIES[6]), rotationDeg \in Rotations}

PolygonPoints ==
    /\ geom.fn = "polygonPoints"
    /\ ~geom.returned
    /\ vertices' = polygonPoints(geom.cx, geom.cy, geom.radius, geom.count, geom.rotationDeg)
    /\ geom' = [geom EXCEPT !.returned = TRUE]
    /\ UNCHANGED toolVars
    /\ UNCHANGED typeVars
    /\ UNCHANGED heapVars

StarPoints ==
    /\ geom.fn = "starPoints"
    /\ ~geom.returned
    /\ vertices' = starPoints(geom.cx, geom.cy, geom.radius, geom.ratio, geom.count,
                              geom.rotationDeg)
    /\ geom' = [geom EXCEPT !.returned = TRUE]
    /\ UNCHANGED toolVars
    /\ UNCHANGED typeVars
    /\ UNCHANGED heapVars

-----------------------------------------------------------------------------
(* property bags as objects.  An object is a position in the heap; a property
   bag handed to a caller is a reference to one, so that two holders of the same
   object see each other's writes *)

\* the module-level constants: the five definitions and the shared list
ModuleDefinitions ==
    [types |-> [k \in LayerTypeKeys |-> LayerType(k)], common |-> COMMON_SHAPE_PROPERTIES]

\* mutation: one module-level object serves every object literal
NewObject_Shared(h) == 1

\* the reference an object literal `{}` or `{ ...x }` evaluates to: a new object
NewObject(h) == Len(h) + 1

\* the heap after the object at ref has been given the contents bag
Store(h, ref, bag) == IF ref > Len(h) THEN Append(h, bag) ELSE [h EXCEPT ![ref] = bag]
Contents(h, ref) == IF ref > Len(h) THEN EmptyBag ELSE h[ref]

\* createDefault: const props = {}; props[schema.key] = schema.default for the
\* type's list; return props
HeapCreateDefaultOf(h, defs, key) ==
    LET ref == NewObject(h)
    IN  [heap |-> Store(h, ref, AssignDefaults(defs.types[key].properties, 1, Contents(h, ref))),
         ref |-> ref]

\* { ...defaults }
HeapSpread(h, from) ==
    LET ref == NewObject(h)
    IN  [heap |-> Store(h, ref, h[from]), ref |-> ref]

Handle(ref, key, via) == [ref |-> ref, key |-> key, via |-> via]
HeapOp(name, ref) == [name |-> name, ref |-> ref]

\* the type operations leave no recording behind
TypesIdle ==
    /\ ltype' = "rect"
    /\ props' = EmptyBag
    /\ origin' = "input"
    /\ bounds' = [x |-> Whole(0), y |-> Whole(0), width |-> Whole(200), height |-> Whole(200)]
    /\ ctx' = createMockCtx
    /\ validation' = [isNull |-> FALSE, errors |-> <<>>]
    /\ op' = "none"
    /\ svg' = NoSvg

HeapCreateDefault(key) ==
    LET made == HeapCreateDefaultOf(heap, definitions, key)
    IN  /\ heap' = made.heap
        /\ handles' = Append(handles, Handle(made.ref, key, "createDefault"))
        /\ heapOp' = HeapOp("createDefault", made.ref)
        /\ TypesIdle
        /\ UNCHANGED definitions
        /\ UNCHANGED toolVars
        /\ UNCHANGED geomVars

\* add_shape: defaults = shapeDef.createDefault(); properties = { ...defaults };
\* the merge writes into properties; the layer holds properties
HeapAddShape(in) ==
    LET kind == Get(in, "shape").s
        defaults == HeapCreateDefaultOf(heap, definitions, kind)
        properties == HeapSpread(defaults.heap, defaults.ref)
    IN  /\ ShapeTypesLookup(Get(in, "shape")) = "layerType"
        /\ heap' = Store(properties.heap, properties.ref,
                         MergeShapeInput(properties.heap[properties.ref], in))
        /\ handles' = Append(handles, Handle(properties.ref, kind, "add_shape"))
        /\ heapOp' = HeapOp("add_shape", properties.ref)
        /\ TypesIdle
        /\ UNCHANGED definitions
        /\ UNCHANGED toolVars
        /\ UNCHANGED geomVars

HeapAddLine(in) ==
    LET defaults == HeapCreateDefaultOf(heap, definitions, "line")
        properties == HeapSpread(defaults.heap, defaults.ref)
    IN  /\ heap' = Store(properties.heap, properties.ref,
                         MergeLineInput(properties.heap[properties.ref], in))
        /\ handles' = Append(handles, Handle(properties.ref, "line", "add_line"))
        /\ heapOp' = HeapOp("add_line", properties.ref)
        /\ TypesIdle
        /\ UNCHANGED definitions
        /\ UNCHANGED toolVars
        /\ UNCHANGED geomVars

\* the holder of a bag assigns one of its properties
HeapAssign(i, k, v) ==
    /\ heap' = [heap EXCEPT ![handles[i].ref] = Put(@, k, v)]
    /\ heapOp' = HeapOp("assign", handles[i].ref)
    /\ TypesIdle
    /\ UNCHANGED <<definitions, handles>>
    /\ UNCHANGED toolVars
    /\ UNCHANGED geomVars

\* render, renderSVG or validate of a bag's layer type on the bag: each reads
\* the properties and the bounds and assigns to neither
HeapRead(i, name) ==
    LET key == handles[i].key
        bag == heap[handles[i].ref]
        box == [x |-> Whole(0), y |-> Whole(0), width |-> Whole(200), height |-> Whole(200)]
    IN  /\ op' = name
        /\ ltype' = key
        /\ props' = bag
        /\ origin' = "layer"
        /\ bounds' = box
        /\ ctx' = IF name = "render" THEN render(key, bag, createMockCtx, box) ELSE createMockCtx
        /\ svg' = IF name = "renderSVG" THEN renderSVG(key, bag, box) ELSE NoSvg
        /\ validation' = IF name = "validate" THEN validate(key, bag)
                         ELSE [isNull |-> FALSE, errors |-> <<>>]
        /\ heapOp' = HeapOp(name, handles[i].ref)
        /\ UNCHANGED <<definitions, heap, handles>>
        /\ UNCHANGED toolVars
        /\ UNCHANGED geomVars

MaxBags == 2

HeapShapeInputs ==
    {Put(EmptyBag, "shape", Str("rect")),
     Put(Put(EmptyBag, "shape", Str("star")), "fillColor", Str("#ff0000"))}
HeapLineInputs == {EmptyBag}
Assignments == {<<"strokeColor", Str("#123456")>>}

-----------------------------------------------------------------------------
(* specifications *)

InitTools(stacks) ==
    /\ layers \in stacks
    /\ hostCalls = <<>>
    /\ result = NoResult
    /\ tool = "none"
    /\ lastInput = EmptyBag
    /\ nAdd = 0
    /\ nUpdate = 0
    /\ nEmit = 0
    /\ nOk = 0
    /\ nCalls = 0

InitTypesIdle ==
    /\ ltype = "rect"
    /\ props = EmptyBag
    /\ origin = "input"
    /\ bounds = Bounds(0, 0, 200, 200)
    /\ ctx = createMockCtx
    /\ validation = NotValidated
    /\ op = "none"
    /\ svg = NoSvg

InitHeapIdle ==
    /\ definitions = ModuleDefinitions
    /\ heap = <<>>
    /\ handles = <<>>
    /\ heapOp = HeapOp("none", 0)

InitGeomIdle ==
    /\ geom = NoGeom
    /\ vertices = <<>>
    /\ InitHeapIdle

\* sequences of tool invocations against a host context
Init == InitTools(InitialStacks) /\ InitTypesIdle /\ InitGeomIdle

Next ==
    \/ \E in \in AddShapeInputs, id \in GeneratedIds :
          nCalls < MaxCalls /\ Len(layers) < MaxLayers /\ AddShape(in, id)
    \/ \E in \in SetShapeStyleInputs : nCalls < MaxCalls /\ SetShapeStyle(in)
    \/ \E in \in SetPolygonInputs : nCalls < MaxCalls /\ SetPolygon(in)
    \/ \E in \in AddLineInputs, id \in GeneratedIds :
          nCalls < MaxCalls /\ Len(layers) < MaxLayers /\ AddLine(in, id)
    \/ nCalls < MaxCalls /\ ListShapes

Spec == Init /\ [][Next]_vars

\* one tool invocation against every host context, over the wide input sets
InitOnce == InitTools(InitialStacksWide) /\ InitTypesIdle /\ InitGeomIdle

NextOnce ==
    \/ \E in \in AddShapeInputsWide, id \in GeneratedIds : nCalls = 0 /\ AddShape(in, id)
    \/ \E in \in SetShapeStyleInputsWide : nCalls = 0 /\ SetShapeStyle(in)
    \/ \E in \in SetPolygonInputsWide : nCalls = 0 /\ SetPolygon(in)
    \/ \E in \in AddLineInputsWide, id \in GeneratedIds : nCalls = 0 /\ AddLine(in, id)
    \/ nCalls = 0 /\ ListShapes
    \/ nCalls = 1 /\ RenderAddedLine

SpecOnce == InitOnce /\ [][NextOnce]_vars

\* the layer type operations on every bag and bounds of the input sets
InitTypes ==
    /\ InitTools({<<>>})
    /\ ltype \in LayerTypeKeys
    /\ props \in TypeBags(ltype)
    /\ origin = "input"
    /\ bounds \in BoundsInputs
    /\ ctx = createMockCtx
    /\ validation = NotValidated
    /\ op = "none"
    /\ svg = NoSvg
    /\ InitGeomIdle

NextTypes ==
    \/ CreateDefault
    \/ Validate
    \/ Render
    \/ ApplyShapeStyle
    \/ RenderSVG

SpecTypes == InitTypes /\ [][NextTypes]_vars

\* the polygon and star validators on every bag of the validator input sets
InitValidate ==
    /\ InitTools({<<>>})
    /\ ltype \in {"polygon", "star"}
    /\ props \in ValidateBags(ltype)
    /\ origin = "input"
    /\ bounds = Bounds(0, 0, 200, 200)
    /\ ctx = createMockCtx
    /\ validation = NotValidated
    /\ op = "none"
    /\ svg = NoSvg
    /\ InitGeomIdle

NextValidate == op = "none" /\ Validate

SpecValidate == InitValidate /\ [][NextValidate]_vars

\* the vertex generators on every vertex count of the schema range
InitPoints ==
    /\ InitTools({<<>>})
    /\ InitTypesIdle
    /\ geom \in PolygonPointsInputs \cup StarPointsInputs
    /\ vertices = <<>>
    /\ InitHeapIdle

NextPoints ==
    \/ PolygonPoints
    \/ StarPoints

SpecPoints == InitPoints /\ [][NextPoints]_vars

\* createDefault, the adding tools, render, renderSVG and validate on bags held
\* by reference, with the holders assigning properties in between
InitHeap ==
    /\ InitTools({<<>>})
    /\ InitTypesIdle
    /\ InitGeomIdle

NextHeap ==
    \/ \E key \in LayerTypeKeys : Len(handles) < MaxBags /\ HeapCreateDefault(key)
    \/ \E in \in HeapShapeInputs : Len(handles) < MaxBags /\ HeapAddShape(in)
    \/ \E in \in HeapLineInputs : Len(handles) < MaxBags /\ HeapAddLine(in)
    \/ \E i \in 1..Len(handles), a \in Assignments : HeapAssign(i, a[1], a[2])
    \/ \E i \in 1..Len(handles), name \in {"render", "renderSVG", "validate"} :
          HeapRead(i, name)

SpecHeap == InitHeap /\ [][NextHeap]_vars

-----------------------------------------------------------------------------
(* properties of the tool handlers *)

AcceptedShapes == {"rect", "ellipse", "polygon", "star"}

LastShape == Get(lastInput, "shape")
LastShapeAccepted == LastShape.t = "string" /\ LastShape.s \in AcceptedShapes

\* the layer the last invocation passed to layers.add
AddedLayer == hostCalls[1].layer
AddedSomething == Len(hostCalls) >= 1 /\ hostCalls[1].fn = "add"

\* the layer the last invocation's layerId refers to, when the host holds one
LastLayerId == Get(lastInput, "layerId")
TargetExists == LastLayerId.t = "string" /\ \E i \in 1..Len(layers) : layers[i].id = LastLayerId.s
TargetType == (CHOOSE l \in {layers[i] : i \in 1..Len(layers)} : l.id = LastLayerId.s).type

\* the type identifiers of the host contexts that begin with "shapes:"
ShapePrefixedTypes ==
    {"shapes:rect", "shapes:ellipse", "shapes:line", "shapes:polygon", "shapes:star",
     "shapes:custom"}

IsErrorResult == result.settled = "resolved" /\ result.isError = Bool(TRUE)
NoHostCall == Len(hostCalls) = 0
LastPiece == result.text[Len(result.text)]

\* C1: add_shape with a shape string other than rect, ellipse, polygon and star
\* resolves to an error-flagged result (it does not reject) and calls neither
\* layers.add nor emitChange
C1_UnknownShapeIsError ==
    (tool = "add_shape" /\ LastShape.t = "string" /\ ~LastShapeAccepted)
        => (IsErrorResult /\ NoHostCall /\ nAdd = 0 /\ nEmit = 0)

ShapeInputKeys == {"fillColor", "strokeColor", "strokeWidth", "sides", "points", "cornerRadius"}

TypeIdOfShape(kind) ==
    CASE kind = "rect" -> "shapes:rect"
      [] kind = "ellipse" -> "shapes:ellipse"
      [] kind = "polygon" -> "shapes:polygon"
      [] kind = "star" -> "shapes:star"

\* the added layer has the kind's typeId, every supplied key holds the supplied
\* value, and every key outside `touched` holds the createDefault value
AddedLayerMerges(touched) ==
    LET defaults == createDefault(LastShape.s)
        supplied == ShapeInputKeys \cap DOMAIN lastInput
        p == AddedLayer.properties
    IN  /\ AddedSomething
        /\ AddedLayer.type = TypeIdOfShape(LastShape.s)
        /\ DOMAIN p = (DOMAIN defaults) \cup supplied
        /\ \A k \in supplied : p[k] = lastInput[k]
        /\ \A k \in (DOMAIN p) \ (supplied \cup touched) : p[k] = defaults[k]

\* C2 as stated: every property that is not supplied keeps its default, so a
\* supplied strokeWidth leaves strokeEnabled at its default
C2_OnlySuppliedKeysChange ==
    (tool = "add_shape" /\ LastShapeAccepted) => AddedLayerMerges({})

\* C2: the layer passed to layers.add has the kind's typeId, every supplied key
\* holds the supplied value, and every other property holds its createDefault
\* value, except that a supplied strokeWidth also sets strokeEnabled to
\* (strokeWidth > 0)
C2_SuppliedKeysAndStrokeEnabled ==
    (tool = "add_shape" /\ LastShapeAccepted) =>
        IF "strokeWidth" \in DOMAIN lastInput
        THEN /\ AddedLayerMerges({"strokeEnabled"})
             /\ AddedLayer.properties["strokeEnabled"] =
                    Bool(lastInput["strokeWidth"].t = "number" /\ lastInput["strokeWidth"].n > 0)
        ELSE AddedLayerMerges({})

C2_Witness ==
    /\ tool = "add_shape"
    /\ LastShape = Str("star")
    /\ DOMAIN lastInput = {"shape", "points", "strokeWidth"}
    /\ lastInput["strokeWidth"] = Whole(3)
    /\ AddedSomething
    /\ AddedLayer.properties["points"] = Whole(8)
    /\ AddedLayer.properties["strokeEnabled"] = Bool(TRUE)
    /\ AddedLayer.properties["innerRadius"] = Num(Fixed(0, 40))

\* C3: an update tool called on a layer of the right kind with no recognised
\* field returns an error-flagged result and calls neither updateProperties nor
\* emitChange
C3_EmptyUpdateIsError ==
    LET emptyStyle == /\ tool = "set_shape_style"
                      /\ TargetExists
                      /\ TargetType \in ShapePrefixedTypes
                      /\ DOMAIN lastInput \cap
                            {"fillColor", "fillEnabled", "strokeColor", "strokeWidth",
                             "strokeEnabled"} = {}
        emptyPolygon == /\ tool = "set_polygon"
                        /\ TargetExists
                        /\ TargetType = "shapes:polygon"
                        /\ DOMAIN lastInput \cap {"sides", "rotation"} = {}
    IN  (emptyStyle \/ emptyPolygon) => (IsErrorResult /\ NoHostCall /\ nUpdate = 0 /\ nEmit = 0)

\* C4: set_shape_style and set_polygon answer a missing layer with the not-found
\* error, and an existing layer of the wrong kind with the wrong-kind error,
\* whatever the update fields are, and make no host call in either case
C4_BadLayerReferenceRejected ==
    /\ (tool \in {"set_shape_style", "set_polygon"} /\ ~TargetExists)
          => (IsErrorResult /\ NoHostCall /\ LastPiece = Str("' not found."))
    /\ (tool = "set_shape_style" /\ TargetExists /\ TargetType \notin ShapePrefixedTypes)
          => (IsErrorResult /\ NoHostCall /\ LastPiece = Str("' is not a shape layer."))
    /\ (tool = "set_polygon" /\ TargetExists /\ TargetType # "shapes:polygon")
          => (IsErrorResult /\ NoHostCall /\ LastPiece = Str("' is not a polygon layer."))

\* set_shape_style on a layer whose type is not a shapes: type, with no style
\* field: the wrong-kind error wins over the empty-update error
C4_Witness ==
    /\ tool = "set_shape_style"
    /\ TargetExists
    /\ TargetType = "my-shapes:rect"
    /\ DOMAIN lastInput = {"layerId"}
    /\ IsErrorResult
    /\ LastPiece = Str("' is not a shape layer.")

\* C5: emissions, writes and successful writer-tool invocations are equal in
\* number; an invocation makes either no host call or one write followed by one
\* emission; an invocation without a non-error result makes none; list_shapes
\* succeeds and makes none
C5_OneWriteOneEmissionPerSuccess ==
    /\ nEmit = nAdd + nUpdate
    /\ nEmit = nOk
    /\ Len(hostCalls) \in {0, 2}
    /\ Len(hostCalls) = 2 =>
          /\ hostCalls[1].fn \in {"add", "updateProperties"}
          /\ hostCalls[2].fn = "emitChange"
    /\ (tool # "none" /\ ~(result.settled = "resolved" /\ result.isError = Undef))
          => NoHostCall
    /\ tool = "list_shapes" =>
          (NoHostCall /\ result.settled = "resolved" /\ result.isError = Undef)

\* three invocations: an add, an update, and a rejected update
C5_Witness ==
    /\ nCalls = 3
    /\ nAdd = 1
    /\ nUpdate = 1
    /\ nEmit = 2
    /\ nOk = 2
    /\ tool = "set_polygon"
    /\ IsErrorResult

-----------------------------------------------------------------------------
(* properties of the layer types *)

CallNames == [j \in 1..Len(ctx.calls) |-> ctx.calls[j].fn]
Calls(fn) == {j \in 1..Len(ctx.calls) : ctx.calls[j].fn = fn}

\* C6: render of every layer type completes for every property bag, valid or
\* not: it raises no error and its last call on the context is restore
C6_RenderNeverFails ==
    op = "render" =>
        /\ ctx.threw = "none"
        /\ Len(ctx.calls) > 0
        /\ ctx.calls[Len(ctx.calls)].fn = "restore"

\* the `properties` list of the layer type under test
SchemaList == LayerType(ltype).properties

\* C7: createDefault returns a bag whose keys are exactly the keys of the type's
\* schema list, each holding that entry's default (rect cornerRadius 0, star
\* innerRadius 0.4, line strokeWidth 2 and strokeColor "#ffffff")
C7_DefaultsMatchSchema ==
    op = "createDefault" =>
        /\ DOMAIN props = {SchemaList[j].key : j \in 1..Len(SchemaList)}
        /\ \A j \in 1..Len(SchemaList) : props[SchemaList[j].key] = SchemaList[j].default
        /\ ltype = "rect" => props["cornerRadius"] = Whole(0)
        /\ ltype = "star" => props["innerRadius"] = Num(Fixed(0, 40))
        /\ ltype = "line" => (props["strokeWidth"] = Whole(2) /\ props["strokeColor"] = Str("#ffffff"))

C7_Witness ==
    /\ op = "createDefault"
    /\ ltype = "rect"
    /\ DOMAIN props = {"fillColor", "fillEnabled", "strokeColor", "strokeWidth",
                       "strokeEnabled", "cornerRadius"}

\* C8: for each layer type, validate applied to the bag createDefault returned
\* is null
C8_DefaultsAreValid ==
    (op = "validate" /\ origin = "createDefault") => validation = ValidationNull

C8_Witness ==
    /\ op = "validate"
    /\ origin = "createDefault"
    /\ ltype = "star"
    /\ props["innerRadius"] = Num(Fixed(0, 40))
    /\ validation.isNull

\* C9: rect render over bounds of non-negative size calls exactly one of rect and
\* roundRect: with cornerRadius > 0, roundRect(x, y, width, height, r) where r is
\* the least of cornerRadius, width / 2 and height / 2; with cornerRadius absent
\* or <= 0, rect(x, y, width, height)
C9_RectCornerClamp ==
    (op = "render" /\ ltype = "rect" /\ bounds.width.n >= 0 /\ bounds.height.n >= 0) =>
        LET cr == Get(props, "cornerRadius")
            rects == Calls("rect")
            rounds == Calls("roundRect")
        IN  /\ Cardinality(rects) + Cardinality(rounds) = 1
            /\ (cr.t = "number" /\ cr.n > 0) =>
                  /\ rects = {}
                  /\ \A j \in rounds :
                        LET a == ctx.calls[j].args
                        IN  /\ Len(a) = 5
                            /\ <<a[1], a[2], a[3], a[4]>> =
                                  <<bounds.x, bounds.y, bounds.width, bounds.height>>
                            /\ a[5].t = "number"
                            /\ a[5].n <= cr.n
                            /\ 2 * a[5].n <= bounds.width.n
                            /\ 2 * a[5].n <= bounds.height.n
                            /\ \/ a[5].n = cr.n
                               \/ 2 * a[5].n = bounds.width.n
                               \/ 2 * a[5].n = bounds.height.n
            /\ (cr.t = "undefined" \/ (cr.t = "number" /\ cr.n <= 0)) =>
                  /\ rounds = {}
                  /\ \A j \in rects :
                        ctx.calls[j].args = <<bounds.x, bounds.y, bounds.width, bounds.height>>

\* bounds (0, 0, 40, 100) and cornerRadius 100 draw with radius 20
C9_Witness ==
    /\ op = "render"
    /\ ltype = "rect"
    /\ bounds = Bounds(0, 0, 40, 100)
    /\ Get(props, "cornerRadius") = Whole(100)
    /\ \E j \in 1..Len(ctx.calls) :
          ctx.calls[j].fn = "roundRect" /\ ctx.calls[j].args[5] = Whole(20)

\* the fill and stroke decisions read off the bag: fillEnabled defaults to true
\* and strokeEnabled to false when absent (or null), strokeWidth to 0
FillWanted ==
    LET v == Get(props, "fillEnabled")
    IN  v.t \in {"undefined", "null"} \/ (v.t = "boolean" /\ v.b)
StrokeWanted ==
    LET e == Get(props, "strokeEnabled")
        w == Get(props, "strokeWidth")
    IN  (e.t = "boolean" /\ e.b) /\ (w.t = "number" /\ w.n > 0)
ValueOr(k, d) == IF k \in DOMAIN props /\ props[k].t # "null" THEN props[k] ELSE d

\* C10: applyShapeStyle calls fill once iff fillEnabled (default true) is truthy,
\* with fillStyle set to fillColor (default "#ffffff"); it calls stroke once iff
\* strokeEnabled (default false) is truthy and strokeWidth (default 0) > 0, with
\* strokeStyle (default "#000000") and lineWidth set; fill comes before stroke;
\* it makes no other call; a default rect render fills with white and does not
\* stroke
C10_FillAndStrokeIndependent ==
    /\ op = "applyShapeStyle" =>
          /\ CallNames = (IF FillWanted THEN <<"fill">> ELSE <<>>)
                           \o (IF StrokeWanted THEN <<"stroke">> ELSE <<>>)
          /\ ctx.fillStyle = (IF FillWanted THEN ValueOr("fillColor", Str("#ffffff"))
                              ELSE createMockCtx.fillStyle)
          /\ ctx.strokeStyle = (IF StrokeWanted THEN ValueOr("strokeColor", Str("#000000"))
                                ELSE createMockCtx.strokeStyle)
          /\ ctx.lineWidth = (IF StrokeWanted THEN props["strokeWidth"]
                              ELSE createMockCtx.lineWidth)
          /\ ctx.threw = "none"
    /\ (op = "render" /\ ltype = "rect" /\ origin = "createDefault") =>
          /\ Cardinality(Calls("fill")) = 1
          /\ Calls("stroke") = {}
          /\ ctx.fillStyle = Str("#ffffff")

\* both paints apply, fill first
C10_Witness ==
    /\ op = "applyShapeStyle"
    /\ Get(props, "strokeEnabled") = Bool(TRUE)
    /\ Get(props, "strokeWidth") = Whole(3)
    /\ ~("fillEnabled" \in DOMAIN props)
    /\ CallNames = <<"fill", "stroke">>
    /\ ctx.lineWidth = Whole(3)

-----------------------------------------------------------------------------
(* properties of the line's dash pattern *)

\* the dash lengths each dash pattern string of the input sets stands for: the
\* comma-separated numbers above zero, in their order
ExpectedDashes(x) ==
    CASE x = "" -> <<>>
      [] x = "5,3" -> <<Whole(5), Whole(3)>>
      [] x = "0,-2,abc" -> <<>>
      [] x = "4,,0,6" -> <<Whole(4), Whole(6)>>
      [] x = "1.5, 2" -> <<Num(Fixed(1, 50)), Whole(2)>>

DashPattern == Coalesce(Get(props, "dashPattern"), Str(""))
LineRendered == op = "render" /\ ltype = "line"
DashCalls == [j \in 1..Cardinality(Calls("setLineDash")) |->
                 ctx.calls[CHOOSE k \in Calls("setLineDash") :
                              Cardinality({m \in Calls("setLineDash") : m < k}) = j - 1]]

\* C11: line render of a dashPattern string splits it on commas, reads each
\* piece as a number and drops the pieces that are NaN or not above zero;
\* setLineDash is called iff a piece survives, and then once, before stroke,
\* with the survivors in their order; otherwise it is not called; stroke is
\* called exactly once either way
C11_DashesParsedAndFiltered ==
    (LineRendered /\ DashPattern.t = "string") =>
        LET expected == ExpectedDashes(DashPattern.s)
        IN  /\ DashCalls = (IF Len(expected) > 0
                            THEN <<CtxCall("setLineDash", expected)>>
                            ELSE <<>>)
            /\ Cardinality(Calls("stroke")) = 1
            /\ \A d \in Calls("setLineDash") : \A k \in Calls("stroke") : d < k
            /\ ctx.threw = "none"

\* "4,,0,6" keeps 4 and 6 and drops the empty piece and the zero
C11_Witness ==
    /\ LineRendered
    /\ DashPattern = Str("4,,0,6")
    /\ DashCalls = <<CtxCall("setLineDash", <<Whole(4), Whole(6)>>)>>
    /\ Cardinality(Calls("stroke")) = 1

-----------------------------------------------------------------------------
(* properties of the vertex generators *)

\* the angle of a vertex in degrees
Degrees(angle) == RatMul(angle, Rat(180, 1))

\* the point a vertex stands for when its angle is a whole number of quarter
\* turns, where the cosine and sine are 0, 1 or -1 (y grows downwards)
QuarterTurns(angle) == ((angle.num * 2) \div angle.den) % 4
OnAxis(v) == v.angle.t = "number" /\ (v.angle.num * 2) % v.angle.den = 0
PointOf(v) ==
    LET q == QuarterTurns(v.angle)
        cos == CASE q = 0 -> 1 [] q = 2 -> 0 - 1 [] OTHER -> 0
        sin == CASE q = 1 -> 1 [] q = 3 -> 0 - 1 [] OTHER -> 0
    IN  [x |-> Num(v.cx.n + v.r.n * cos), y |-> Num(v.cy.n + v.r.n * sin)]

PolygonReturned == geom.fn = "polygonPoints" /\ geom.returned
StarReturned == geom.fn = "starPoints" /\ geom.returned

\* (rotation - 90) + i * turn / count, in degrees
ExpectedDegrees(i, turn) ==
    RatAdd(RatSub(RatOf(geom.rotationDeg), Rat(90, 1)),
           RatMul(Rat(i, 1), RatDiv(Rat(turn, 1), RatOf(geom.count))))

\* C12: for a whole number of sides from 3 to 100 and a rotation in [0, 360),
\* polygonPoints returns exactly `sides` vertices; vertex i lies at distance r
\* from (cx, cy) at (rotation - 90) + i * 360 / sides degrees, so consecutive
\* vertices are 360 / sides degrees apart and, with rotation 0, vertex 0 is the
\* point (cx, cy - r) straight above the center
C12_PolygonVertices ==
    PolygonReturned =>
        /\ Len(vertices) * 100 = geom.count.n
        /\ \A j \in 1..Len(vertices) :
              /\ vertices[j].cx = geom.cx
              /\ vertices[j].cy = geom.cy
              /\ vertices[j].r = geom.radius
              /\ Degrees(vertices[j].angle) = ExpectedDegrees(j - 1, 360)
        /\ \A j \in 1..(Len(vertices) - 1) :
              Degrees(RatSub(vertices[j + 1].angle, vertices[j].angle))
                  = RatDiv(Rat(360, 1), RatOf(geom.count))
        /\ geom.rotationDeg = Whole(0) =>
              /\ OnAxis(vertices[1])
              /\ PointOf(vertices[1]) = [x |-> geom.cx, y |-> Minus(geom.cy, geom.radius)]

\* a hexagon rotated by 45 degrees: six vertices, vertex 1 at 15 degrees
C12_Witness ==
    /\ PolygonReturned
    /\ geom.count = Whole(6)
    /\ geom.rotationDeg = Whole(45)
    /\ Len(vertices) = 6
    /\ Degrees(vertices[2].angle) = Rat(15, 1)

\* C13: for a whole number of points from 3 to 50, starPoints returns exactly
\* 2 * numPoints vertices; vertex i lies at (rotation - 90) + i * 180 / numPoints
\* degrees, at distance outerRadius when i is even and outerRadius *
\* innerRadiusRatio when i is odd, so the first vertex is an outer one and
\* numPoints vertices are outer and numPoints inner
C13_StarVertices ==
    StarReturned =>
        LET inner == Times(geom.radius, geom.ratio)
            outerAt == {j \in 1..Len(vertices) : (j - 1) % 2 = 0}
            innerAt == {j \in 1..Len(vertices) : (j - 1) % 2 = 1}
        IN  /\ Len(vertices) * 100 = 2 * geom.count.n
            /\ \A j \in 1..Len(vertices) :
                  /\ vertices[j].cx = geom.cx
                  /\ vertices[j].cy = geom.cy
                  /\ Degrees(vertices[j].angle) = ExpectedDegrees(j - 1, 180)
            /\ \A j \in outerAt : vertices[j].r = geom.radius
            /\ \A j \in innerAt : vertices[j].r = inner
            /\ inner # geom.radius
            /\ Cardinality(outerAt) * 100 = geom.count.n
            /\ Cardinality(innerAt) * 100 = geom.count.n

\* a five-pointed star of outer radius 100 and ratio 0.4: ten vertices, the
\* second one 36 degrees on at radius 40
C13_Witness ==
    /\ StarReturned
    /\ geom.count = Whole(5)
    /\ geom.rotationDeg = Whole(0)
    /\ geom.radius = Whole(100)
    /\ geom.ratio = Num(Fixed(0, 40))
    /\ Len(vertices) = 10
    /\ vertices[1].r = Whole(100)
    /\ vertices[2].r = Whole(40)
    /\ Degrees(vertices[2].angle) = Rat(0 - 54, 1)

-----------------------------------------------------------------------------
(* properties of add_line *)

\* the endpoint the input names, or its default when the key is absent or null
Endpoint(k, d) ==
    IF k \in DOMAIN lastInput /\ lastInput[k].t # "null" THEN lastInput[k] ELSE Whole(d)

CallsNamed(names) == [j \in 1..Cardinality({k \in 1..Len(ctx.calls) : ctx.calls[k].fn \in names}) |->
                         ctx.calls[CHOOSE k \in 1..Len(ctx.calls) :
                             /\ ctx.calls[k].fn \in names
                             /\ Cardinality({m \in 1..(k - 1) : ctx.calls[m].fn \in names}) = j - 1]]

\* the box stored by the last add_line and the segment its render drew lead
\* back to the endpoints x1, y1, x2, y2
LineRoundTrip(x1, y1, x2, y2) ==
    LET t == AddedLayer.transform
    IN  /\ AddedSomething
        /\ AddedLayer.type = "shapes:line"
        /\ t.x = x1
        /\ t.y = y1
        /\ Plus(t.x, t.width) = x2
        /\ Plus(t.y, t.height) = y2
        /\ op = "render" =>
              /\ bounds = [x |-> t.x, y |-> t.y, width |-> t.width, height |-> t.height]
              /\ CallsNamed({"moveTo", "lineTo"})
                    = <<CtxCall("moveTo", <<x1, y1>>), CtxCall("lineTo", <<x2, y2>>)>>

\* the four endpoints of the last add_line are numbers (given, or defaulted)
NumericEndpoints ==
    \A k \in {"x1", "y1", "x2", "y2"} : Endpoint(k, 0).t = "number"

\* C14: for endpoints that are numbers, add_line stores the box of the two
\* endpoints with the first endpoint as origin: transform x = x1, y = y1, and
\* width and height reach from there to (x2, y2), also when x2 < x1 or
\* y2 < y1; the line's render over that box draws moveTo(x1, y1) then
\* lineTo(x2, y2); absent endpoints are (0, 0) and (200, 200)
C14_LineBoundsRoundTrip ==
    tool = "add_line" /\ NumericEndpoints =>
        LineRoundTrip(Endpoint("x1", 0), Endpoint("y1", 0),
                      Endpoint("x2", 200), Endpoint("y2", 200))

\* outside the tool's number schema the input is stored as given: x1 as the
\* text "6" is kept as text, the width is 200 - "6" = 194, and the render
\* ends the segment at the concatenation "6" + 194
LineDrawnFromText ==
    /\ tool = "add_line"
    /\ op = "render"
    /\ Get(lastInput, "x1") = Str("6")
    /\ Get(lastInput, "x2") = Undef
    /\ Get(lastInput, "y2") = Undef
    /\ AddedLayer.transform.x = Str("6")
    /\ AddedLayer.transform.width = Whole(194)
    /\ CallsNamed({"moveTo", "lineTo"})
          = <<CtxCall("moveTo", <<Str("6"), Whole(0)>>),
              CtxCall("lineTo", <<Str("6194"), Whole(200)>>)>>

\* a line drawn leftwards and upwards, from (300, 450) to (30, 400)
C14_Witness ==
    /\ tool = "add_line"
    /\ op = "render"
    /\ Get(lastInput, "x1") = Whole(300)
    /\ Get(lastInput, "y1") = Whole(450)
    /\ Get(lastInput, "x2") = Whole(30)
    /\ Get(lastInput, "y2") = Whole(400)
    /\ AddedLayer.transform.width = Whole(0 - 270)
    /\ CallsNamed({"moveTo", "lineTo"})
          = <<CtxCall("moveTo", <<Whole(300), Whole(450)>>),
              CtxCall("lineTo", <<Whole(30), Whole(400)>>)>>

-----------------------------------------------------------------------------
(* properties of the polygon and star validators *)

\* v is a number within [lo, hi] (hundredths); NaN is within no interval
NumberWithin(v, lo, hi) == v.t = "number" /\ lo <= v.n /\ v.n <= hi

ErrorProperties == [j \in 1..Len(validation.errors) |-> validation.errors[j].property]

\* C15: star validate reports an error on points iff points is not a number in
\* [3, 50] and an error on innerRadius iff innerRadius is not a number in
\* [0.05, 0.95], each independently of the other and points first; the result
\* is null, never an empty list, when neither is violated
C15_StarChecksIndependent ==
    (op = "validate" /\ ltype = "star") =>
        LET pointsBad == ~NumberWithin(Get(props, "points"), Fixed(3, 0), Fixed(50, 0))
            innerBad == ~NumberWithin(Get(props, "innerRadius"), Fixed(0, 5), Fixed(0, 95))
        IN  /\ ErrorProperties = (IF pointsBad THEN <<"points">> ELSE <<>>)
                                   \o (IF innerBad THEN <<"innerRadius">> ELSE <<>>)
            /\ validation.isNull <=> (~pointsBad /\ ~innerBad)

\* C16: polygon validate returns one error on "sides" iff sides is missing, is
\* not a number, or is a number outside [3, 100], NaN included; otherwise it
\* returns null; no other property affects the result
C16_PolygonSidesRange ==
    (op = "validate" /\ ltype = "polygon") =>
        IF NumberWithin(Get(props, "sides"), Fixed(3, 0), Fixed(100, 0))
        THEN validation = ValidationNull
        ELSE /\ ~validation.isNull
             /\ ErrorProperties = <<"sides">>

-----------------------------------------------------------------------------
(* the tool handlers and the validators *)

\* the keys of `keys` the last input holds, with their input values
Supplied(keys) == [k \in keys \cap DOMAIN lastInput |-> lastInput[k]]

\* the bag holds every supplied value as given
HoldsSupplied(bag, keys) ==
    \A k \in keys \cap DOMAIN lastInput : k \in DOMAIN bag /\ bag[k] = lastInput[k]

UpdateCall == hostCalls[1]
Updated == Len(hostCalls) >= 1 /\ hostCalls[1].fn = "updateProperties"

\* C17: the writer tools succeed or fail on the shape kind and the layer
\* reference alone, never on what a validator would say about the values:
\* add_shape and add_line store every supplied property as given, and
\* set_shape_style and set_polygon forward every supplied value as given, with
\* a non-error result
C17_ValidationIsAdvisory ==
    /\ (tool = "add_shape" /\ LastShapeAccepted) =>
          /\ NonError(result)
          /\ AddedSomething
          /\ HoldsSupplied(AddedLayer.properties, ShapeInputKeys)
    /\ tool = "add_line" =>
          /\ NonError(result)
          /\ AddedSomething
          /\ HoldsSupplied(AddedLayer.properties, {"strokeColor", "strokeWidth"})
    /\ (tool = "set_shape_style" /\ TargetExists /\ TargetType \in ShapePrefixedTypes
            /\ Supplied({"fillColor", "fillEnabled", "strokeColor", "strokeWidth",
                         "strokeEnabled"}) # EmptyBag) =>
          /\ NonError(result)
          /\ Updated
          /\ UpdateCall.updates = Supplied({"fillColor", "fillEnabled", "strokeColor",
                                            "strokeWidth", "strokeEnabled"})
    /\ (tool = "set_polygon" /\ TargetExists /\ TargetType = "shapes:polygon") =>
          /\ NonError(result)
          /\ Updated
          /\ UpdateCall.updates = Supplied({"sides", "rotation"})

\* set_polygon forwards sides = 2, which polygon validate rejects
C17_Witness ==
    /\ tool = "set_polygon"
    /\ Get(lastInput, "sides") = Whole(2)
    /\ NonError(result)
    /\ Updated
    /\ UpdateCall.updates["sides"] = Whole(2)
    /\ ~polygonValidate(UpdateCall.updates).isNull

-----------------------------------------------------------------------------
(* the drawing order of polygon and star *)

\* the bag passes the layer type's validate with a vertex count that is a number
ValidCount(k) == validate(ltype, props).isNull /\ Get(props, k).t = "number"

\* the center and radius the claim names: the midpoint of the bounds and half
\* of the smaller extent
MidX == Num(bounds.x.n + bounds.width.n \div 2)
MidY == Num(bounds.y.n + bounds.height.n \div 2)
HalfSmallerExtent ==
    Num((IF bounds.width.n < bounds.height.n THEN bounds.width.n ELSE bounds.height.n) \div 2)

PaintNames == (IF FillWanted THEN <<"fill">> ELSE <<>>)
                \o (IF StrokeWanted THEN <<"stroke">> ELSE <<>>)

\* save, beginPath, moveTo the first vertex, lineTo each further vertex in
\* index order, closePath, the paint calls, restore
DrawsInOrder(expected, n) ==
    /\ Len(expected) = n
    /\ CallNames = <<"save", "beginPath", "moveTo">> \o [j \in 1..(n - 1) |-> "lineTo"]
                     \o <<"closePath">> \o PaintNames \o <<"restore">>
    /\ \A j \in 1..n : ctx.calls[2 + j].at = expected[j]
    /\ Cardinality(Calls("save")) = 1
    /\ Cardinality(Calls("restore")) = 1
    /\ ctx.threw = "none"

\* C18: polygon and star render of a valid bag call save, beginPath, one moveTo
\* to vertex 0, n - 1 lineTo for vertices 1 .. n - 1 in index order (n = sides
\* for polygon, 2 * points for star), closePath, the paint calls of
\* applyShapeStyle and restore last, save and restore once each; the vertices
\* are those of the generator for the bounds' midpoint and radius
\* min(width, height) / 2
C18_ClosedPathOrder ==
    /\ (op = "render" /\ ltype = "polygon" /\ ValidCount("sides")) =>
          DrawsInOrder(polygonPoints(MidX, MidY, HalfSmallerExtent, props["sides"],
                                     ValueOr("rotation", Whole(0))),
                       props["sides"].n \div 100)
    /\ (op = "render" /\ ltype = "star" /\ ValidCount("points")) =>
          DrawsInOrder(starPoints(MidX, MidY, HalfSmallerExtent, props["innerRadius"],
                                  props["points"], ValueOr("rotation", Whole(0))),
                       2 * (props["points"].n \div 100))

\* a stroked five-pointed star in a 100 by 40 box: ten vertices around
\* (60, 40) with outer radius 20, fill then stroke before restore
C18_Witness ==
    /\ op = "render"
    /\ ltype = "star"
    /\ bounds = Bounds(10, 20, 100, 40)
    /\ Get(props, "points") = Whole(5)
    /\ Get(props, "innerRadius") = Num(Fixed(0, 50))
    /\ StrokeWanted
    /\ FillWanted
    /\ Len(ctx.calls) = 16
    /\ ctx.calls[3].fn = "moveTo"
    /\ ctx.calls[3].at.cx = Whole(60)
    /\ ctx.calls[3].at.cy = Whole(40)
    /\ ctx.calls[3].at.r = Whole(20)
    /\ ctx.calls[4].at.r = Whole(10)
    /\ ctx.calls[13].fn = "closePath"
    /\ ctx.calls[16].fn = "restore"

-----------------------------------------------------------------------------
(* canvas and SVG *)

SvgHas(name) == \E j \in 1..Len(svg.attrs) : svg.attrs[j].name = name
SvgValue(name) == svg.attrs[CHOOSE j \in 1..Len(svg.attrs) : svg.attrs[j].name = name].value

\* the element paints its interior: it carries a fill that is not "none"
SvgFillVisible == SvgHas("fill") /\ SvgValue("fill") # Str("none")
\* the element paints its outline: a stroke that is not "none", of a width above 0
SvgStrokeVisible ==
    /\ SvgHas("stroke")
    /\ SvgValue("stroke") # Str("none")
    /\ SvgHas("stroke-width")
    /\ Gt(SvgValue("stroke-width"), Whole(0))

CanvasArgs(fn) == ctx.calls[CHOOSE j \in Calls(fn) : TRUE].args

\* C19: the SVG element of a layer paints what its canvas render paints: a
\* visible fill exactly when the canvas render calls fill, a visible stroke
\* exactly when it calls stroke, for the rect a corner radius equal to the one
\* passed to roundRect, and for the line the dash pattern given to setLineDash
C19_SvgAgreesWithCanvas ==
    (op = "renderSVG" /\ ctx.threw = "none") =>
        /\ ltype # "line" => (SvgFillVisible <=> Calls("fill") # {})
        /\ SvgStrokeVisible <=> Calls("stroke") # {}
        /\ (ltype = "rect" /\ Calls("roundRect") # {}) =>
              SvgValue("rx") = CanvasArgs("roundRect")[5]
        /\ (ltype = "line" /\ Calls("setLineDash") # {}) =>
              /\ SvgHas("stroke-dasharray")
              /\ SvgValue("stroke-dasharray") = CanvasArgs("setLineDash")

-----------------------------------------------------------------------------
(* frame properties *)

HandleRefs == {handles[i].ref : i \in 1..Len(handles)}

\* C20: the layer type definitions and the schema lists, the shared common list
\* included, never change; every createDefault, add_shape and add_line call
\* hands out a bag no other holder has; an object's contents change only when
\* its own holder assigns to it, so render, renderSVG and validate leave the
\* bag as it was, and a createDefault after any such assignment still returns
\* the schema defaults
C20_FreshBagsAndFrozenDefinitions ==
    /\ [](/\ definitions = ModuleDefinitions
          /\ Cardinality(HandleRefs) = Len(handles))
    /\ [][/\ definitions' = definitions
          /\ \A r \in 1..Len(heap) :
                heap'[r] # heap[r] => (heapOp'.name = "assign" /\ heapOp'.ref = r)
          /\ heapOp'.name \in {"render", "renderSVG", "validate"} =>
                (heap' = heap /\ props' = heap[heapOp'.ref])
          /\ heapOp'.name = "createDefault" =>
                heap'[heapOp'.ref] = createDefault(handles'[Len(handles')].key)]_vars

\* two rect bags: the first was given another stroke color before the second
\* was created, and the second holds the defaults
C20_Witness ==
    /\ Len(handles) = 2
    /\ handles[1].key = "rect"
    /\ handles[2].key = "rect"
    /\ heapOp = HeapOp("createDefault", handles[2].ref)
    /\ heap[handles[1].ref]["strokeColor"] = Str("#123456")
    /\ heap[handles[2].ref] = createDefault("rect")

====
